---- MODULE Spec2Model ----
(***************************************************************************)
(* A model of the conveyor core: the Async state machine                   *)
(* (conveyor/async/__init__.py), the JSON framer _JsonReader and the       *)
(* JSON-RPC endpoint JsonRpc (conveyor/jsonrpc.py).                        *)
(***************************************************************************)
EXTENDS Integers, Sequences, FiniteSets, TLC

VARIABLES
    \* ---- Async (conveyor/async/__init__.py) ----
    async,          \* the Async object: state, heartbeat, reply, error, fired
    a_last,         \* the last call made on it: event, entry point, raised

    \* ---- _JsonReader (conveyor/jsonrpc.py) ----
    jr,             \* the reader object: _state, _stack, _buffer
    jr_out,         \* what _send did with each buffer, in order
    jr_fed,         \* every byte passed to the reader so far, in order
    jr_pc,          \* position of the caller: idle, inside feedfile, inside run
    jr_ret,         \* feedfile or run, when that call returned last
    jr_input,       \* the value being fed in the fixed-input scenario
    jr_pos,         \* how many bytes of jr_input have been fed

    \* ---- JsonRpc (conveyor/jsonrpc.py) ----
    rpc,            \* the endpoint: _methods, _tasks, _idcounter, and the
                    \* tasks that have stopped
    rpc_op,         \* the operation that ran last, with its input
    rpc_log,        \* what that operation did: handlers invoked, routes taken
    rpc_outfp,      \* what that operation wrote to the output stream

    \* ---- JsonRpc under threads (conveyor/jsonrpc.py) ----
    t_thr,          \* each thread's position, the call it runs and its id
    t_lock,         \* the holders of _idcounterlock and _outfplock
    t_outfp,        \* self._outfp: the pieces written and how many are flushed
    t_infp,         \* the messages of the peer the reader has not read yet
    t_hist,         \* what happened: ids minted, answered, handled, returned

    \* ---- _S3gMachine (conveyor/machine/s3g.py) ----
    mach,           \* the machine: _state, _s3g, telemetry, _operation, _task
    m_dev,          \* the device side: the writer of the handle
    m_task,         \* the states of the tasks passed to print()
    m_work,         \* the work thread: position, lock held, operation run,
                    \* the lines the parser has accepted
    m_poll,         \* the poll thread: at the loop test, in an iteration
                    \* or ended
    m_stop,         \* the caller of stop(): not called, flag set, returned
    m_last,         \* what the last step raised to its caller, and the call

    \* ---- S3gDriver (conveyor/machine/s3g.py) ----
    d_machines,     \* the machines created, each with its profile
    d_port,         \* for each port the machine bound to it, 0 for none
    d_last          \* the last call on the driver and how it ended

asyncVars == <<async, a_last>>
jrVars == <<jr, jr_out, jr_fed, jr_pc, jr_ret, jr_input, jr_pos>>
rpcVars == <<rpc, rpc_op, rpc_log, rpc_outfp>>
thVars == <<t_thr, t_lock, t_outfp, t_infp, t_hist>>
mVars == <<mach, m_dev, m_task, m_work, m_poll, m_stop, m_last>>
dVars == <<d_machines, d_port, d_last>>
vars == <<async, a_last, jr, jr_out, jr_fed, jr_pc, jr_ret, jr_input, jr_pos,
          rpc, rpc_op, rpc_log, rpc_outfp,
          t_thr, t_lock, t_outfp, t_infp, t_hist,
          mach, m_dev, m_task, m_work, m_poll, m_stop, m_last,
          d_machines, d_port, d_last>>

None == "None"

(***************************************************************************)
(* Bounds                                                                  *)
(***************************************************************************)
MaxPayload == 2
MaxHeartbeats == 2
MaxInput == 5
MaxRead == 4
MaxChunk == 2
MaxValueLen == 7
MaxRequests == 1
MaxBatch == 2
MaxCalls == 2
MaxPrints == 2
MaxLines == 1
MaxMachines == 2

(***************************************************************************)
(* Async                                                                   *)
(***************************************************************************)
AsyncState == {"PENDING", "RUNNING", "SUCCESS", "ERROR", "TIMEOUT", "CANCELED"}

AsyncEvent == {"START", "HEARTBEAT", "REPLY", "ERROR", "TIMEOUT", "CANCEL"}

Payloads == 1..MaxPayload

\* Async.__init__
AsyncNew ==
    [state |-> "PENDING",
     heartbeat |-> None, reply |-> None, error |-> None,
     fired |-> [e \in AsyncEvent |-> <<>>]]

\* event(*args, **kwargs): the listeners of the event are called with the payload
Fire(a, event, payload) ==
    [a EXCEPT !.fired[event] = Append(@, payload)]

\* the PENDING branch of Async._transition
TransitionPending(a, event, payload) ==
    IF event = "START"
    THEN [a |-> Fire([a EXCEPT !.state = "RUNNING"], "START", payload),
          raised |-> FALSE]
    ELSE IF event = "CANCEL"
    THEN [a |-> Fire([a EXCEPT !.state = "CANCELED"], "CANCEL", payload),
          raised |-> FALSE]
    ELSE [a |-> a, raised |-> TRUE]

\* a RUNNING branch in which TIMEOUT is taken for ERROR
TransitionRunningSwapped(a, event, payload) ==
    IF event = "HEARTBEAT"
    THEN [a |-> Fire([a EXCEPT !.heartbeat = payload], "HEARTBEAT", payload),
          raised |-> FALSE]
    ELSE IF event = "REPLY"
    THEN [a |-> Fire([a EXCEPT !.state = "SUCCESS", !.reply = payload],
                     "REPLY", payload),
          raised |-> FALSE]
    ELSE IF event \in {"ERROR", "TIMEOUT"}
    THEN [a |-> Fire([a EXCEPT !.state = "ERROR", !.error = payload],
                     "ERROR", payload),
          raised |-> FALSE]
    ELSE IF event = "CANCEL"
    THEN [a |-> Fire([a EXCEPT !.state = "CANCELED"], "CANCEL", payload),
          raised |-> FALSE]
    ELSE [a |-> a, raised |-> TRUE]

\* the RUNNING branch of Async._transition
TransitionRunning(a, event, payload) ==
    IF event = "HEARTBEAT"
    THEN [a |-> Fire([a EXCEPT !.heartbeat = payload], "HEARTBEAT", payload),
          raised |-> FALSE]
    ELSE IF event = "REPLY"
    THEN [a |-> Fire([a EXCEPT !.state = "SUCCESS", !.reply = payload],
                     "REPLY", payload),
          raised |-> FALSE]
    ELSE IF event = "ERROR"
    THEN [a |-> Fire([a EXCEPT !.state = "ERROR", !.error = payload],
                     "ERROR", payload),
          raised |-> FALSE]
    ELSE IF event = "TIMEOUT"
    THEN [a |-> Fire([a EXCEPT !.state = "TIMEOUT"], "TIMEOUT", payload),
          raised |-> FALSE]
    ELSE IF event = "CANCEL"
    THEN [a |-> Fire([a EXCEPT !.state = "CANCELED"], "CANCEL", payload),
          raised |-> FALSE]
    ELSE [a |-> a, raised |-> TRUE]

\* a terminal branch in which CANCEL cancels again
TransitionEndedRecancel(a, event, payload) ==
    IF event = "CANCEL"
    THEN [a |-> Fire([a EXCEPT !.state = "CANCELED"], "CANCEL", payload),
          raised |-> FALSE]
    ELSE [a |-> a, raised |-> TRUE]

\* the last branch of Async._transition (SUCCESS, ERROR, TIMEOUT, CANCELED)
TransitionEnded(a, event, payload) ==
    IF event = "CANCEL"
    THEN [a |-> a, raised |-> FALSE]
    ELSE [a |-> a, raised |-> TRUE]

\* Async._transition: the new object, and whether IllegalTransitionException
\* was raised
Transition(a, event, payload) ==
    IF a.state = "PENDING" THEN TransitionPending(a, event, payload)
    ELSE IF a.state = "RUNNING" THEN TransitionRunning(a, event, payload)
    ELSE TransitionEnded(a, event, payload)

\* the bound of the model on heartbeats: the listeners' log stays finite
AsyncRoom(event) ==
    event = "HEARTBEAT" => Len(async.fired["HEARTBEAT"]) < MaxHeartbeats

\* a direct call of Async._transition(event, args, kwargs), as the tests make
TransitionCall ==
    \E event \in AsyncEvent, payload \in Payloads :
        /\ AsyncRoom(event)
        /\ LET r == Transition(async, event, payload) IN
            /\ async' = r.a
            /\ a_last' = [event |-> event, via |-> "_transition",
                          raised |-> r.raised]
        /\ UNCHANGED <<jrVars, rpcVars, thVars, mVars, dVars>>

\* a _trigger_transition without the except clause
TriggerTransitionRaises(a, event, payload) == Transition(a, event, payload)

\* Async._trigger_transition: IllegalTransitionException is swallowed
TriggerTransition(a, event, payload) ==
    [a |-> Transition(a, event, payload).a, raised |-> FALSE]

\* heartbeat_trigger, reply_trigger, error_trigger, timeout_trigger
Trigger ==
    \E event \in {"HEARTBEAT", "REPLY", "ERROR", "TIMEOUT"},
       payload \in Payloads :
        /\ AsyncRoom(event)
        /\ LET r == TriggerTransition(async, event, payload) IN
            /\ async' = r.a
            /\ a_last' = [event |-> event, via |-> "trigger",
                          raised |-> r.raised]
        /\ UNCHANGED <<jrVars, rpcVars, thVars, mVars, dVars>>

\* Async.cancel(): the CANCEL event with the empty payload ((), {})
Cancel ==
    /\ LET r == TriggerTransition(async, "CANCEL", 0) IN
        /\ async' = r.a
        /\ a_last' = [event |-> "CANCEL", via |-> "trigger",
                      raised |-> r.raised]
    /\ UNCHANGED <<jrVars, rpcVars, thVars, mVars, dVars>>

(***************************************************************************)
(* _JsonReader: the JSON framer                                            *)
(***************************************************************************)
Openers == {"{", "["}

Closers == {"}", "]"}

\* the characters _transition skips in state 0 and _send strips
Whitespace == {" ", "\t", "\n", "\r"}

\* the bytes the model feeds: every class of byte the reader tells apart
Alphabet == Openers \cup Closers \cup {"\"", "\\", " ", "a"}

\* _JsonReader._reset: the fields of a fresh reader
JrReset == [state |-> 0, stack |-> <<>>, buffer |-> <<>>]

\* data.strip(' \t\n\r') is empty
IsBlank(data) == \A i \in 1..Len(data) : data[i] \in Whitespace

\* a _send that resets the reader before it reads the buffer
JrSendResetFirst(c, by) ==
    [r |-> JrReset, out |-> c.out]

\* _JsonReader._send: reset, then hand the old buffer to the listeners unless
\* it is blank. c is the reader with the log of what was sent; a non-empty
\* blank buffer is logged as dropped.
JrSend(c, by) ==
    LET data == c.r.buffer IN
    [r |-> JrReset,
     out |-> IF ~IsBlank(data)
             THEN Append(c.out, [data |-> data, kind |-> "emit", by |-> by])
             ELSE IF Len(data) > 0
             THEN Append(c.out, [data |-> data, kind |-> "drop", by |-> by])
             ELSE c.out]

\* state 0 of _JsonReader._transition
JrOutside(c, ch) ==
    IF ch \in Openers
    THEN [c EXCEPT !.r.state = 1, !.r.stack = Append(@, ch)]
    ELSE IF ch \notin Whitespace
    THEN JrSend(c, "_transition")
    ELSE c

\* a closer branch that sends on every closer, whatever is left on the stack
JrCloserFlat(c, ch) ==
    JrSend(c, "_transition")

\* a closer branch that takes every closer for the match of the innermost
\* opener
JrCloserTolerant(c, ch) ==
    IF Len(c.r.stack) = 0
    THEN JrSend(c, "_transition")
    ELSE LET popped == [c EXCEPT !.r.stack = SubSeq(@, 1, Len(@) - 1)]
         IN IF Len(popped.r.stack) = 0
            THEN JrSend(popped, "_transition")
            ELSE popped

\* state 1 of _JsonReader._transition, on '}' or ']'
JrCloser(c, ch) ==
    IF Len(c.r.stack) = 0
    THEN JrSend(c, "_transition")
    ELSE LET firstch == c.r.stack[Len(c.r.stack)]
             popped == [c EXCEPT !.r.stack = SubSeq(@, 1, Len(@) - 1)]
         IN IF (firstch = "{" /\ ch # "}") \/ (firstch = "[" /\ ch # "]")
            THEN JrSend(popped, "_transition")
            ELSE IF Len(popped.r.stack) = 0
            THEN JrSend(popped, "_transition")
            ELSE popped

\* state 1 of _JsonReader._transition
JrInside(c, ch) ==
    IF ch = "\""
    THEN [c EXCEPT !.r.state = 2]
    ELSE IF ch \in Openers
    THEN [c EXCEPT !.r.stack = Append(@, ch)]
    ELSE IF ch \in Closers
    THEN JrCloser(c, ch)
    ELSE c

\* a string state that knows no escape: every quote ends the string
JrStringNoEscape(c, ch) ==
    IF ch = "\""
    THEN [c EXCEPT !.r.state = 1]
    ELSE c

\* state 2 of _JsonReader._transition
JrString(c, ch) ==
    IF ch = "\""
    THEN [c EXCEPT !.r.state = 1]
    ELSE IF ch = "\\"
    THEN [c EXCEPT !.r.state = 3]
    ELSE c

\* _JsonReader._transition (the reader's state is always one of 0..3: the
\* ValueError branch is not reachable through feed)
JrTransition(c, ch) ==
    IF c.r.state = 0 THEN JrOutside(c, ch)
    ELSE IF c.r.state = 1 THEN JrInside(c, ch)
    ELSE IF c.r.state = 2 THEN JrString(c, ch)
    ELSE [c EXCEPT !.r.state = 2]

\* the body of the loop of _JsonReader.feed: buffer the byte, then scan it
JrFeedChar(c, ch) ==
    JrTransition([c EXCEPT !.r.buffer = Append(@, ch)], ch)

RECURSIVE JrFeedFrom(_, _, _)
\* the loop of _JsonReader.feed from the i-th byte of data on
JrFeedFrom(c, data, i) ==
    IF i > Len(data)
    THEN c
    ELSE JrFeedFrom(JrFeedChar(c, data[i]), data, i + 1)

\* a feed that starts every call with a fresh scanner
JrFeedForgetful(c, data) ==
    JrFeedFrom([c EXCEPT !.r.state = 0, !.r.stack = <<>>], data, 1)

\* _JsonReader.feed
JrFeedData(c, data) ==
    JrFeedFrom(c, data, 1)

\* _JsonReader.feedeof
JrFeedEofData(c) ==
    JrSend(c, "feedeof")

\* the reader together with the log of its sends
JrNow == [r |-> jr, out |-> jr_out]

\* the non-empty byte strings of at most n bytes, and of at most MaxChunk
Chunks(n) ==
    UNION {[1..k -> Alphabet] : k \in 1..(IF n < MaxChunk THEN n ELSE MaxChunk)}

\* the bound of the model on the bytes fed in all through feed: what is left
JrRoom == MaxInput - Len(jr_fed)

\* the bound of the model on the bytes read in all by feedfile: what is left
JrFileRoom == MaxRead - Len(jr_fed)

\* a caller calls feed(data)
JrFeed ==
    /\ jr_pc = "idle"
    /\ \E data \in Chunks(JrRoom) :
        /\ LET c == JrFeedData(JrNow, data) IN
            /\ jr' = c.r
            /\ jr_out' = c.out
        /\ jr_fed' = jr_fed \o data
    /\ jr_ret' = None
    /\ UNCHANGED <<jr_pc, jr_input, jr_pos, asyncVars, rpcVars, thVars, mVars, dVars>>

\* a caller calls feedfile(fp)
JrFeedFile ==
    /\ jr_pc = "idle"
    /\ jr_pc' = "feedfile"
    /\ jr_ret' = None
    /\ UNCHANGED <<jr, jr_out, jr_fed, jr_input, jr_pos, asyncVars, rpcVars, thVars, mVars, dVars>>

\* JsonRpc.run(): feedfile(self._infp) is entered
JrRun ==
    /\ jr_pc = "idle"
    /\ jr_pc' = "run"
    /\ jr_ret' = None
    /\ UNCHANGED <<jr, jr_out, jr_fed, jr_input, jr_pos, asyncVars, rpcVars, thVars, mVars, dVars>>

\* the loop of feedfile: fp.read(8192) returned some bytes (the reader may
\* return fewer than asked for), which are fed
JrRead ==
    /\ jr_pc \in {"feedfile", "run"}
    /\ \E data \in Chunks(JrFileRoom) :
        /\ LET c == JrFeedData(JrNow, data) IN
            /\ jr' = c.r
            /\ jr_out' = c.out
        /\ jr_fed' = jr_fed \o data
    /\ UNCHANGED <<jr_pc, jr_ret, jr_input, jr_pos, asyncVars, rpcVars, thVars, mVars, dVars>>

\* a run() that returns after feedfile without calling feedeof
JrRunTailNoFlush(c) == c

\* JsonRpc.run() after feedfile has returned: feedeof()
JrRunTail(c) == JrFeedEofData(c)

\* the loop of feedfile: fp.read(8192) returned no bytes, the loop is left and
\* feedfile returns; inside run(), run() goes on to its end
JrReadEof ==
    /\ jr_pc \in {"feedfile", "run"}
    /\ LET c == IF jr_pc = "run" THEN JrRunTail(JrNow) ELSE JrNow IN
        /\ jr' = c.r
        /\ jr_out' = c.out
    /\ jr_pc' = "idle"
    /\ jr_ret' = jr_pc
    /\ UNCHANGED <<jr_fed, jr_input, jr_pos, asyncVars, rpcVars, thVars, mVars, dVars>>

\* the next bytes of the fixed input are fed, in a chunk of any size
JrFeedInput ==
    /\ jr_pc = "idle"
    /\ \E n \in 1..MaxChunk :
        /\ jr_pos + n <= Len(jr_input)
        /\ LET data == SubSeq(jr_input, jr_pos + 1, jr_pos + n)
               c == JrFeedData(JrNow, data)
           IN /\ jr' = c.r
              /\ jr_out' = c.out
              /\ jr_fed' = jr_fed \o data
        /\ jr_pos' = jr_pos + n
    /\ jr_ret' = None
    /\ UNCHANGED <<jr_pc, jr_input, asyncVars, rpcVars, thVars, mVars, dVars>>

(***************************************************************************)
(* The inputs of the fixed-input scenario: JSON-like values, built from    *)
(* the grammar  value ::= '{' item* '}' | '[' item* ']',                   *)
(* item ::= value | string | 'a' | ' ',  string ::= '"' elem* '"',         *)
(* elem ::= any byte but '"' and '\' | '\' any byte.                       *)
(***************************************************************************)
CloserOf(o) == IF o = "{" THEN "}" ELSE "]"

\* the elements of a string body, by length
StrElems(k) ==
    IF k = 1 THEN {<<ch>> : ch \in Alphabet \ {"\"", "\\"}}
    ELSE IF k = 2 THEN {<<"\\", ch>> : ch \in {"\"", "\\", "a"}}
    ELSE {}

RECURSIVE StrBodies(_)
\* the string bodies of exactly n bytes
StrBodies(n) ==
    IF n = 0 THEN {<<>>}
    ELSE UNION {{e \o rest : e \in StrElems(k), rest \in StrBodies(n - k)} :
                k \in 1..(IF n < 2 THEN n ELSE 2)}

\* the strings of exactly n bytes, quotes included
StringsOfLen(n) ==
    IF n < 2 THEN {} ELSE {<<"\"">> \o b \o <<"\"">> : b \in StrBodies(n - 2)}

RECURSIVE ItemSeqs(_), ValuesOfLen(_)
\* the values of exactly n bytes
ValuesOfLen(n) ==
    IF n < 2 THEN {}
    ELSE {<<o>> \o b \o <<CloserOf(o)>> : o \in Openers, b \in ItemSeqs(n - 2)}

\* the sequences of items of exactly n bytes in all
ItemSeqs(n) ==
    IF n = 0 THEN {<<>>}
    ELSE UNION {{i \o rest :
                    i \in (IF k = 1 THEN {<<"a">>, <<" ">>} ELSE {})
                          \cup StringsOfLen(k) \cup ValuesOfLen(k),
                    rest \in ItemSeqs(n - k)} :
                k \in 1..n}

\* a value of at most MaxValueLen bytes, after optional whitespace
ValueInputs ==
    UNION {ValuesOfLen(n) \cup {<<" ">> \o v : v \in ValuesOfLen(n - 1)} :
           n \in 2..MaxValueLen}

(***************************************************************************)
(* JsonRpc: the endpoint. JSON values are modelled as tagged records: the  *)
(* text handed to json.loads is modelled by the value it denotes, or by    *)
(* Garbage when json.loads raises ValueError.                              *)
(***************************************************************************)
Absent == [k |-> "absent"]

Null == [k |-> "null"]

Num(n) == [k |-> "num", n |-> n]

Str(x) == [k |-> "str", s |-> x]

List(n) == [k |-> "list", len |-> n]

Dict(n) == [k |-> "dict", len |-> n]

ErrObj == [k |-> "dict", len |-> 2]

Garbage == [k |-> "garbage"]

\* the method names the model registers and calls: f(*args, **kwargs) takes
\* any arguments, g() takes none
MethodNames == {"f", "g"}

\* how a handler call ends once its arguments are bound: it returns, raises
\* JsonRpcException or raises another exception
Outcomes == {"return", "rpcerror", "exception"}

\* the ids inbound messages carry: absent, null, a string, and the numbers
\* of the first requests the endpoint mints
IdValues == {Absent, Null, Str("a"), Num(0), Num(1)}

\* the JSON objects the model receives: every combination of the members
\* the endpoint looks at
Objects ==
    [k : {"obj"},
     jsonrpc : {Absent, Str("2.0"), Str("1.0")},
     method : {Absent, Num(1)} \cup {Str(m) : m \in MethodNames},
     params : {Absent, List(1), Dict(1), Str("x")},
     id : IdValues,
     result : {Absent, Str("r")},
     error : {Absent, ErrObj}]

\* a JSON-RPC 2.0 object with these members
Obj20(method, params, id, result, error) ==
    [k |-> "obj", jsonrpc |-> Str("2.0"), method |-> method,
     params |-> params, id |-> id, result |-> result, error |-> error]

\* the elements batches are made of: a number, an object that is no
\* request, requests, notifications and responses
BatchElems ==
    {Num(1),
     [k |-> "obj", jsonrpc |-> Absent, method |-> Absent, params |-> Absent,
      id |-> Absent, result |-> Absent, error |-> Absent],
     Obj20(Str("f"), Absent, Str("a"), Absent, Absent),
     Obj20(Str("f"), Absent, Absent, Absent, Absent),
     Obj20(Str("g"), List(1), Num(1), Absent, Absent),
     Obj20(Str("g"), Absent, Absent, Absent, Absent),
     Obj20(Absent, Absent, Num(0), Str("r"), Absent),
     Obj20(Absent, Absent, Num(0), Absent, ErrObj)}

Arr(elems) == [k |-> "arr", elems |-> elems]

Batches == {Arr(e) : e \in UNION {[1..n -> BatchElems] : n \in 0..MaxBatch}}

\* everything the framer may hand to the endpoint
Indata == {Garbage, Num(1), Str("x"), Null} \cup Objects \cup Batches

\* 'key' in parsed
Has(field) == field # Absent

\* parsed.get('id'): None when the member is missing, and when it is null
GetId(parsed) == IF Has(parsed.id) THEN parsed.id ELSE Null

\* no response (None)
NoResponse == [k |-> "none"]

\* JsonRpc._successresponse
SuccessResponse(id, result) ==
    [jsonrpc |-> "2.0", result |-> result, id |-> id]

\* JsonRpc._errorresponse without data
ErrorResponse(id, code, message) ==
    [jsonrpc |-> "2.0", error |-> [code |-> code, message |-> message],
     id |-> id]

\* JsonRpc._errorresponse with data
ErrorResponseData(id, code, message, data) ==
    [jsonrpc |-> "2.0",
     error |-> [code |-> code, message |-> message, data |-> data],
     id |-> id]

\* a parse error reported as an invalid request
ParseErrorAsInvalid == ErrorResponse(Null, -32600, "invalid request")

\* JsonRpc._parseerror
ParseError == ErrorResponse(Null, -32700, "parse error")

\* JsonRpc._invalidrequest
InvalidRequest(id) == ErrorResponse(id, -32600, "invalid request")

\* JsonRpc._methodnotfound
MethodNotFound(id) == ErrorResponse(id, -32601, "method not found")

\* JsonRpc._invalidparams
InvalidParams(id) == ErrorResponse(id, -32602, "invalid params")

\* JsonRpc._isrequest
IsRequest(parsed) ==
    /\ Has(parsed.jsonrpc)
    /\ parsed.jsonrpc = Str("2.0")
    /\ Has(parsed.method)
    /\ parsed.method.k = "str"

\* JsonRpc._issuccessresponse
IsSuccessResponse(parsed) ==
    /\ Has(parsed.jsonrpc)
    /\ parsed.jsonrpc = Str("2.0")
    /\ Has(parsed.result)

\* JsonRpc._iserrorresponse
IsErrorResponse(parsed) ==
    /\ Has(parsed.jsonrpc)
    /\ parsed.jsonrpc = Str("2.0")
    /\ Has(parsed.error)

\* an _isresponse that knows success responses only
IsResponseSuccessOnly(parsed) == IsSuccessResponse(parsed)

\* JsonRpc._isresponse
IsResponse(parsed) == IsSuccessResponse(parsed) \/ IsErrorResponse(parsed)

\* Task.end(result) / Task.fail(error) on the running task registered under
\* id n: the task stops and its stoppedevent listener deletes _tasks[n]
TaskStop(e, n, state, value) ==
    [e EXCEPT !.tasks = [i \in DOMAIN e.tasks \ {n} |-> e.tasks[i]],
              !.stopped = [i \in DOMAIN e.stopped \cup {n} |->
                            IF i = n THEN [state |-> state, value |-> value]
                            ELSE e.stopped[i]]]

\* Task.end(result) / Task.fail(error): a running task stops; a task that
\* was not started yet has no such transition and stays as it is
TaskEnd(e, n, state, value) ==
    IF e.tasks[n] = "RUNNING" THEN TaskStop(e, n, state, value) ELSE e

\* a _handleresponse that ends the task whatever the response is
HandleResponseEndsAll(c, response, id) ==
    IF ~(id.k = "num" /\ id.n \in DOMAIN c.e.tasks)
    THEN c
    ELSE [c EXCEPT !.e = TaskEnd(c.e, id.n, "ENDED", response.result)]

\* a _handleresponse that takes a response with an unknown number for the
\* answer to a task
HandleResponseUnknownEnds(c, response, id) ==
    IF id.k # "num"
    THEN c
    ELSE [c EXCEPT !.e = TaskStop(c.e, id.n, "ENDED", response.result)]

\* JsonRpc._handleresponse; c is the endpoint with the log of the operation
HandleResponse(c, response, id) ==
    IF ~(id.k = "num" /\ id.n \in DOMAIN c.e.tasks)
    THEN c
    ELSE IF IsSuccessResponse(response)
    THEN [c EXCEPT !.e = TaskEnd(c.e, id.n, "ENDED", response.result)]
    ELSE [c EXCEPT !.e = TaskEnd(c.e, id.n, "FAILED", response.error)]

\* func(*args, **kwargs): TypeError when the arguments do not fit the
\* signature, else the handler's own outcome
CallOutcome(method, args, kwargs, outcome) ==
    IF method = "g" /\ (args.len > 0 \/ kwargs.len > 0)
    THEN "typeerror"
    ELSE outcome

\* an _invokemethod without the TypeError clause: the signature mismatch
\* falls through to the bare except
InvokeMethodBareExcept(c, id, method, args, kwargs, outcome) ==
    LET how == CallOutcome(method, args, kwargs, outcome)
        called == [c EXCEPT !.invoked =
                    Append(@, [method |-> method, args |-> args,
                               kwargs |-> kwargs, outcome |-> how])]
    IN [c |-> called,
        response |->
            IF id = Null THEN NoResponse
            ELSE IF how = "rpcerror"
            THEN ErrorResponseData(id, 1, "message", "data")
            ELSE IF how \in {"typeerror", "exception"}
            THEN ErrorResponseData(id, -32000, "uncaught exception",
                    [name |-> "Exception", args |-> <<"message">>,
                     message |-> "message"])
            ELSE SuccessResponse(id, "result")]

\* JsonRpc._invokemethod
InvokeMethod(c, id, method, args, kwargs, outcome) ==
    LET how == CallOutcome(method, args, kwargs, outcome)
        called == [c EXCEPT !.invoked =
                    Append(@, [method |-> method, args |-> args,
                               kwargs |-> kwargs, outcome |-> how])]
    IN [c |-> called,
        response |->
            IF id = Null THEN NoResponse
            ELSE IF how = "typeerror" THEN InvalidParams(id)
            ELSE IF how = "rpcerror"
            THEN ErrorResponseData(id, 1, "message", "data")
            ELSE IF how = "exception"
            THEN ErrorResponseData(id, -32000, "uncaught exception",
                    [name |-> "Exception", args |-> <<"message">>,
                     message |-> "message"])
            ELSE SuccessResponse(id, "result")]

\* a dispatch that takes any params that is not an object for positional
HandleParamsLoose(c, id, method, params, outcome) ==
    IF params.k = "dict"
    THEN InvokeMethod(c, id, method, List(0), params, outcome)
    ELSE InvokeMethod(c, id, method, List(1), Dict(0), outcome)

\* JsonRpc._handlerequest, once 'params' is known to be in the request
HandleParams(c, id, method, params, outcome) ==
    IF params.k = "dict"
    THEN InvokeMethod(c, id, method, List(0), params, outcome)
    ELSE IF params.k = "list"
    THEN InvokeMethod(c, id, method, params, Dict(0), outcome)
    ELSE [c |-> c, response |-> InvalidParams(id)]

\* JsonRpc._handlerequest
HandleRequest(c, request, id, outcome) ==
    LET method == request.method.s IN
    IF method \notin c.e.methods
    THEN [c |-> c, response |-> MethodNotFound(id)]
    ELSE IF ~Has(request.params)
    THEN InvokeMethod(c, id, method, List(0), Dict(0), outcome)
    ELSE HandleParams(c, id, method, request.params, outcome)

\* the log of the operation with the route taken for one value appended
Routed(c, route) == [c EXCEPT !.route = Append(@, route)]

\* JsonRpc._handleobject
HandleObject(c, parsed, outcome) ==
    IF parsed.k # "obj"
    THEN [c |-> Routed(c, "invalid"), response |-> InvalidRequest(Null)]
    ELSE LET id == GetId(parsed) IN
         IF IsRequest(parsed)
         THEN HandleRequest(Routed(c, "request"), parsed, id, outcome)
         ELSE IF IsResponse(parsed)
         THEN [c |-> HandleResponse(Routed(c, "response"), parsed, id),
               response |-> NoResponse]
         ELSE [c |-> Routed(c, "invalid"), response |-> InvalidRequest(id)]

RECURSIVE HandleElems(_, _, _, _, _)
\* the loop of JsonRpc._handlearray from the i-th element on
HandleElems(c, elems, outcomes, i, responses) ==
    IF i > Len(elems)
    THEN [c |-> c, responses |-> responses]
    ELSE LET sub == HandleObject(c, elems[i], outcomes[i]) IN
         HandleElems(sub.c, elems, outcomes, i + 1,
                     IF sub.response # NoResponse
                     THEN Append(responses, sub.response)
                     ELSE responses)

\* JsonRpc._handlearray
HandleArray(c, parsed, outcomes) ==
    IF Len(parsed.elems) = 0
    THEN [c |-> Routed(c, "invalid"), response |-> InvalidRequest(Null)]
    ELSE LET all == HandleElems(c, parsed.elems, outcomes, 1, <<>>) IN
         [c |-> all.c,
          response |-> IF Len(all.responses) = 0
                       THEN NoResponse
                       ELSE [k |-> "batch", items |-> all.responses]]

\* JsonRpc._jsonreadercallback up to the response
Respond(c, indata, outcomes) ==
    IF indata = Garbage
    THEN [c |-> Routed(c, "parseerror"), response |-> ParseError]
    ELSE IF indata.k = "obj"
    THEN HandleObject(c, indata, outcomes[1])
    ELSE IF indata.k = "arr"
    THEN HandleArray(c, indata, outcomes)
    ELSE [c |-> Routed(c, "invalid"), response |-> InvalidRequest(Null)]

\* the endpoint at the start of an operation, with an empty log
RpcNow == [e |-> rpc, invoked |-> <<>>, route |-> <<>>]

\* the handler calls the value may lead to: one per element of a batch
Calls(indata) ==
    IF indata.k = "arr" /\ Len(indata.elems) > 0
    THEN 1..Len(indata.elems)
    ELSE {1}

\* the i-th value of indata is handed to _handlerequest
MayInvoke(indata, i) ==
    LET v == IF indata.k = "arr" /\ Len(indata.elems) > 0
             THEN indata.elems[i] ELSE indata
    IN v.k = "obj" /\ IsRequest(v)

\* the operations write and are then observed: the model keeps the output
\* and the log of one operation at a time
RpcIdle == rpc_op.name = "none"

\* the framer emits indata and _jsonreadercallback handles it: parse,
\* dispatch, write the response if there is one
JsonReaderCallback ==
    /\ RpcIdle
    /\ \E indata \in Indata :
       \E outcomes \in [Calls(indata) -> Outcomes] :
        /\ \A i \in Calls(indata) :
            ~MayInvoke(indata, i) => outcomes[i] = "return"
        /\ LET r == Respond(RpcNow, indata, outcomes) IN
            /\ rpc' = r.c.e
            /\ rpc_log' = [invoked |-> r.c.invoked, route |-> r.c.route]
            /\ rpc_outfp' = IF r.response # NoResponse
                            THEN <<r.response>>
                            ELSE <<>>
        /\ rpc_op' = [name |-> "callback", indata |-> indata]
    /\ UNCHANGED <<asyncVars, jrVars, thVars, mVars, dVars>>

\* JsonRpc.request(method, params): mint the id, send the request, register
\* the task under the id and start it
Request ==
    /\ RpcIdle
    /\ rpc.idcounter < MaxRequests
    /\ LET id == rpc.idcounter IN
        /\ rpc' = [rpc EXCEPT
                    !.idcounter = id + 1,
                    !.tasks = [i \in DOMAIN rpc.tasks \cup {id} |->
                                IF i = id THEN "RUNNING" ELSE rpc.tasks[i]]]
        /\ rpc_outfp' = <<[jsonrpc |-> "2.0", method |-> "peer",
                           params |-> List(0), id |-> Num(id)]>>
        /\ rpc_op' = [name |-> "request", indata |-> Num(id)]
    /\ rpc_log' = [invoked |-> <<>>, route |-> <<>>]
    /\ UNCHANGED <<asyncVars, jrVars, thVars, mVars, dVars>>

\* JsonRpc.addmethod(method, func)
AddMethod ==
    /\ RpcIdle
    /\ \E method \in MethodNames :
        rpc' = [rpc EXCEPT !.methods = @ \cup {method}]
    /\ UNCHANGED <<rpc_op, rpc_log, rpc_outfp, asyncVars, jrVars, thVars, mVars, dVars>>

\* JsonRpc.delmethod(method), for a method that is registered
DelMethod ==
    /\ RpcIdle
    /\ \E method \in rpc.methods :
        rpc' = [rpc EXCEPT !.methods = @ \ {method}]
    /\ UNCHANGED <<rpc_op, rpc_log, rpc_outfp, asyncVars, jrVars, thVars, mVars, dVars>>

\* the caller cancels a task request() returned: the task stops and its
\* stoppedevent listener deletes _tasks[id]
TaskCancel ==
    /\ RpcIdle
    /\ \E n \in DOMAIN rpc.tasks :
        rpc' = TaskStop(rpc, n, "CANCELED", Null)
    /\ UNCHANGED <<rpc_op, rpc_log, rpc_outfp, asyncVars, jrVars, thVars, mVars, dVars>>

\* the peer has read the output; the endpoint waits for its next operation
RpcObserve ==
    /\ ~RpcIdle
    /\ rpc_op' = [name |-> "none", indata |-> Null]
    /\ rpc_log' = [invoked |-> <<>>, route |-> <<>>]
    /\ rpc_outfp' = <<>>
    /\ UNCHANGED <<rpc, asyncVars, jrVars, thVars, mVars, dVars>>

(***************************************************************************)
(* JsonRpc under threads: caller threads run request() and notify() while  *)
(* the reader thread runs run(); each step is one statement of the code,   *)
(* and write(data) takes the message in two pieces.                        *)
(***************************************************************************)
Callers == {"c1", "c2"}

Reader == "reader"

Threads == Callers \cup {Reader}

\* a thread that runs no call
ThreadIdle(t) ==
    [pc |-> IF t = Reader THEN "read" ELSE "idle", call |-> None,
     id |-> Absent]

\* the calls the callers have begun so far
CallsBegun == t_hist.calls

\* the piece of a message a thread writes
Piece(t, part) ==
    [by |-> t, call |-> t_thr[t].call, id |-> t_thr[t].id, part |-> part]

\* the request with id n is on the output stream, whole and flushed
Flushed(n) ==
    \E i \in 1..t_outfp.flushed :
        /\ t_outfp.buf[i].call = "request"
        /\ t_outfp.buf[i].id = Num(n)
        /\ t_outfp.buf[i].part = "tail"

\* the responses the peer may send for the request with id n
ResponsesTo(n) ==
    {Obj20(Absent, Absent, Num(n), Str("r"), Absent),
     Obj20(Absent, Absent, Num(n), Absent, ErrObj)}

\* the request the peer sends
PeerCall == Obj20(Str("f"), Absent, Str("a"), Absent, Absent)

\* a caller thread enters request(method, params)
CallRequest ==
    /\ \E t \in Callers :
        /\ t_thr[t].pc = "idle"
        /\ CallsBegun < MaxCalls
        /\ t_thr' = [t_thr EXCEPT ![t] =
                        [pc |-> "lock_id", call |-> "request", id |-> Absent]]
    /\ t_hist' = [t_hist EXCEPT !.calls = @ + 1]
    /\ UNCHANGED <<t_lock, t_outfp, t_infp, asyncVars, jrVars, rpcVars, mVars, dVars>>

\* a caller thread enters notify(method, params): the request has no id
CallNotify ==
    /\ \E t \in Callers :
        /\ t_thr[t].pc = "idle"
        /\ CallsBegun < MaxCalls
        /\ t_thr' = [t_thr EXCEPT ![t] =
                        [pc |-> "send", call |-> "notify", id |-> Absent]]
    /\ t_hist' = [t_hist EXCEPT !.calls = @ + 1]
    /\ UNCHANGED <<t_lock, t_outfp, t_infp, asyncVars, jrVars, rpcVars, mVars, dVars>>

\* an entry into 'with self._idcounterlock' that does not wait for the lock
AcquireIdLockAnyway(t) ==
    /\ t_thr[t].pc = "lock_id"
    /\ t_lock' = [t_lock EXCEPT !.idcounter = t]
    /\ t_thr' = [t_thr EXCEPT ![t].pc = "read_id"]

\* with self._idcounterlock: the thread enters when the lock is free
AcquireIdLock(t) ==
    /\ t_thr[t].pc = "lock_id"
    /\ t_lock.idcounter = None
    /\ t_lock' = [t_lock EXCEPT !.idcounter = t]
    /\ t_thr' = [t_thr EXCEPT ![t].pc = "read_id"]

LockId ==
    /\ \E t \in Callers : AcquireIdLock(t)
    /\ UNCHANGED <<t_outfp, t_infp, t_hist, asyncVars, jrVars, rpcVars, mVars, dVars>>

\* id = self._idcounter
ReadId ==
    /\ \E t \in Callers :
        /\ t_thr[t].pc = "read_id"
        /\ t_thr' = [t_thr EXCEPT ![t].pc = "incr_id",
                                  ![t].id = Num(rpc.idcounter)]
    /\ t_hist' = [t_hist EXCEPT !.minted = Append(@, rpc.idcounter)]
    /\ UNCHANGED <<t_lock, t_outfp, t_infp, asyncVars, jrVars, rpcVars, mVars, dVars>>

\* self._idcounter += 1, and the with block ends
IncrId ==
    /\ \E t \in Callers :
        /\ t_thr[t].pc = "incr_id"
        /\ t_thr' = [t_thr EXCEPT ![t].pc = "send"]
    /\ rpc' = [rpc EXCEPT !.idcounter = @ + 1]
    /\ t_lock' = [t_lock EXCEPT !.idcounter = None]
    /\ UNCHANGED <<t_outfp, t_infp, t_hist, rpc_op, rpc_log, rpc_outfp,
                   asyncVars, jrVars, mVars, dVars>>

\* an entry into 'with self._outfplock' that does not wait for the lock
AcquireOutLockAnyway(t) ==
    /\ t_thr[t].pc = "send"
    /\ t_lock' = [t_lock EXCEPT !.outfp = t]
    /\ t_thr' = [t_thr EXCEPT ![t].pc = "write"]

\* JsonRpc._send, with self._outfplock: the thread enters when the lock is
\* free
AcquireOutLock(t) ==
    /\ t_thr[t].pc = "send"
    /\ t_lock.outfp = None
    /\ t_lock' = [t_lock EXCEPT !.outfp = t]
    /\ t_thr' = [t_thr EXCEPT ![t].pc = "write"]

LockOut ==
    /\ \E t \in Threads : AcquireOutLock(t)
    /\ UNCHANGED <<t_outfp, t_infp, t_hist, asyncVars, jrVars, rpcVars, mVars, dVars>>

\* self._outfp.write(data): the first piece of the message
Write ==
    /\ \E t \in Threads :
        /\ t_thr[t].pc = "write"
        /\ t_outfp' = [t_outfp EXCEPT !.buf = Append(@, Piece(t, "head"))]
        /\ t_thr' = [t_thr EXCEPT ![t].pc = "write_rest"]
    /\ UNCHANGED <<t_lock, t_infp, t_hist, asyncVars, jrVars, rpcVars, mVars, dVars>>

\* self._outfp.write(data): the rest of the message
WriteRest ==
    /\ \E t \in Threads :
        /\ t_thr[t].pc = "write_rest"
        /\ t_outfp' = [t_outfp EXCEPT !.buf = Append(@, Piece(t, "tail"))]
        /\ t_thr' = [t_thr EXCEPT ![t].pc = "flush"]
    /\ UNCHANGED <<t_lock, t_infp, t_hist, asyncVars, jrVars, rpcVars, mVars, dVars>>

\* self._outfp.flush()
Flush ==
    /\ \E t \in Threads :
        /\ t_thr[t].pc = "flush"
        /\ t_thr' = [t_thr EXCEPT ![t].pc = "unlock"]
    /\ t_outfp' = [t_outfp EXCEPT !.flushed = Len(t_outfp.buf)]
    /\ UNCHANGED <<t_lock, t_infp, t_hist, asyncVars, jrVars, rpcVars, mVars, dVars>>

\* the with block of _send ends; request() goes on to its task, notify()
\* returns, the reader goes back to reading
UnlockOut ==
    /\ \E t \in Threads :
        /\ t_thr[t].pc = "unlock"
        /\ t_thr' = [t_thr EXCEPT ![t] =
                        IF t_thr[t].call = "request"
                        THEN [@ EXCEPT !.pc = "register"]
                        ELSE ThreadIdle(t)]
    /\ t_lock' = [t_lock EXCEPT !.outfp = None]
    /\ UNCHANGED <<t_outfp, t_infp, t_hist, asyncVars, jrVars, rpcVars, mVars, dVars>>

\* task = conveyor.task.Task(); self._tasks[id] = task; the stoppedevent
\* listener is attached
Register ==
    /\ \E t \in Callers :
        /\ t_thr[t].pc = "register"
        /\ rpc' = [rpc EXCEPT !.tasks =
                    [i \in DOMAIN rpc.tasks \cup {t_thr[t].id.n} |->
                        IF i = t_thr[t].id.n THEN "PENDING"
                        ELSE rpc.tasks[i]]]
        /\ t_thr' = [t_thr EXCEPT ![t].pc = "start"]
    /\ UNCHANGED <<t_lock, t_outfp, t_infp, t_hist, rpc_op, rpc_log,
                   rpc_outfp, asyncVars, jrVars, mVars, dVars>>

\* task.start(); return task
Start ==
    /\ \E t \in Callers :
        /\ t_thr[t].pc = "start"
        /\ rpc' = [rpc EXCEPT !.tasks[t_thr[t].id.n] = "RUNNING"]
        /\ t_hist' = [t_hist EXCEPT !.returned = @ \cup {t_thr[t].id.n}]
        /\ t_thr' = [t_thr EXCEPT ![t] = ThreadIdle(t)]
    /\ UNCHANGED <<t_lock, t_outfp, t_infp, rpc_op, rpc_log, rpc_outfp,
                   asyncVars, jrVars, mVars, dVars>>

\* the peer has read a request from the stream and responds to it, once
PeerRespond ==
    /\ \E n \in 0..(rpc.idcounter - 1) :
        /\ Flushed(n)
        /\ n \notin t_hist.answered
        /\ \E response \in ResponsesTo(n) :
            t_infp' = Append(t_infp, response)
        /\ t_hist' = [t_hist EXCEPT !.answered = @ \cup {n}]
    /\ UNCHANGED <<t_thr, t_lock, t_outfp, asyncVars, jrVars, rpcVars, mVars, dVars>>

\* the peer sends its request
PeerRequest ==
    /\ ~t_hist.inbound
    /\ t_infp' = Append(t_infp, PeerCall)
    /\ t_hist' = [t_hist EXCEPT !.inbound = TRUE]
    /\ UNCHANGED <<t_thr, t_lock, t_outfp, asyncVars, jrVars, rpcVars, mVars, dVars>>

\* the response is for a task that is registered and was not started yet
HitsUnstarted(parsed) ==
    /\ IsResponse(parsed)
    /\ ~IsRequest(parsed)
    /\ parsed.id.k = "num"
    /\ parsed.id.n \in DOMAIN rpc.tasks
    /\ rpc.tasks[parsed.id.n] = "PENDING"

\* the reader thread, inside run(): the framer emits the next message of the
\* peer and _jsonreadercallback handles it up to _send; a task that was not
\* started does not end, and its end() may raise into run()
ReaderHandle ==
    /\ t_thr[Reader].pc = "read"
    /\ t_infp # <<>>
    /\ LET parsed == Head(t_infp)
           r == HandleObject(RpcNow, parsed, "return")
       IN /\ rpc' = r.c.e
          /\ \E raises \in {r.response = NoResponse /\ HitsUnstarted(parsed),
                            FALSE} :
                t_thr' = [t_thr EXCEPT ![Reader] =
                    IF raises
                    THEN [pc |-> "raised", call |-> None, id |-> Absent]
                    ELSE IF r.response # NoResponse
                    THEN [pc |-> "send", call |-> "reply",
                          id |-> r.response.id]
                    ELSE ThreadIdle(Reader)]
          /\ t_hist' = [t_hist EXCEPT !.handled =
                            IF IsRequest(parsed) THEN @
                            ELSE @ \cup {parsed.id.n}]
    /\ t_infp' = Tail(t_infp)
    /\ UNCHANGED <<t_lock, t_outfp, rpc_op, rpc_log, rpc_outfp, asyncVars,
                   jrVars, mVars, dVars>>

(***************************************************************************)
(* _S3gMachine: the machine with its callers, its poll thread and its work *)
(* thread. A step is what a thread does while it holds _state_condition:   *)
(* a whole call of a caller, one poll, and for the work thread one stretch *)
(* of _MakeOperation.run between two waits, cut at each line.              *)
(***************************************************************************)
MachineState == {"DISCONNECTED", "BUSY", "IDLE", "OPERATION"}

\* what a successful poll samples: the busy flags and wait_for_button of
\* the motherboard status, and is_finished
Telemetry ==
    [k : {"telemetry"}, busy : BOOLEAN, button : BOOLEAN, finished : BOOLEAN]

\* the errors of makerbot_driver that _poll tells apart, IOError and any
\* other exception
PollErrors ==
    {"ActiveBuildError", "BuildCancelledError", "ExternalStopError",
     "OverheatError", "CommandNotSupportedError", "ProtocolError",
     "ParameterError", "IOError", "Exception"}

\* what the device calls of one poll lead to
Samples == [k : {"error"}, e : PollErrors] \cup Telemetry

\* where connect() may raise: in driver._connect, in get_version, in
\* get_toolhead_count, or nowhere
ConnectOutcomes == {"connect_error", "version_error", "toolhead_error", "ok"}

\* what a device call of the work thread leads to
WorkOutcomes ==
    {"ok", "BufferOverflowError", "BuildCancelledError", "ExternalStopError",
     "OverheatError", "Exception"}

TaskStopped == {"ENDED", "FAILED", "CANCELED"}

\* the sequences run() passes to _execute_lines, in order
Segments == <<"start", "file", "end">>

\* _S3gMachine.__init__, with _state as conveyor.machine.Machine sets it
MachineNew ==
    [state |-> "DISCONNECTED", s3g |-> None, firmware_version |-> None,
     toolhead_count |-> None, telemetry |-> Null, operation |-> Null,
     task |-> Null, stop |-> FALSE]

\* _MakeOperation.__init__
MakeOperation(task, skip_start_end) ==
    [k |-> "op", task |-> task, skip_start_end |-> skip_start_end,
     pause |-> FALSE]

\* the work thread outside run()
WorkAt(pc) ==
    [pc |-> pc, lock |-> FALSE, op |-> Null, seg |-> 1, line |-> 0,
     how |-> None, done |-> <<>>]

\* the machine and all around it at the start of a step
MNow ==
    [m |-> mach, dev |-> m_dev, tasks |-> m_task, w |-> m_work,
     raised |-> None, sampled |-> FALSE, aborted |-> FALSE]

\* the work thread holds _state_condition
Locked == m_work.lock

\* _state_condition.notify_all(): a thread inside wait() returns from it
NotifyAll(c) ==
    IF c.w.pc = "waiting" THEN [c EXCEPT !.w.pc = "loop"] ELSE c

\* _S3gMachine._change_state
ChangeState(c, new_state) ==
    IF new_state # c.m.state
    THEN [NotifyAll(c) EXCEPT !.m.state = new_state]
    ELSE c

\* run() of the operation of task n has attached cancel_callback to the
\* task's cancelevent
Attached(c, n) ==
    c.w.op # Null /\ c.w.op.task.n = n /\ c.w.pc # "begin"

\* Task.cancel(): a task that has not stopped is canceled, and its
\* cancelevent calls cancel_callback if run() has attached it: the external
\* stop is set and cleared and the device is aborted
CancelTask(c, n) ==
    IF c.tasks[n] \in TaskStopped
    THEN c
    ELSE [c EXCEPT !.tasks[n] = "CANCELED",
                   !.aborted = @ \/ Attached(c, n)]

\* Task.end(None) / Task.fail(e): a running task stops
StopTask(c, n, state) ==
    IF c.tasks[n] = "RUNNING"
    THEN [c EXCEPT !.tasks[n] = state]
    ELSE c

\* _S3gMachine._handle_disconnect
HandleDisconnect(c) ==
    ChangeState(
        [c EXCEPT !.dev.writer = IF c.m.s3g # None THEN "closed" ELSE @,
                  !.m.s3g = None,
                  !.m.firmware_version = None,
                  !.m.toolhead_count = None,
                  !.m.telemetry = Null,
                  !.m.operation = Null,
                  !.m.task = Null],
        "DISCONNECTED")

\* a handler that takes a cancelled build for a lost connection
HandleBuildCancelledFatal(c) == HandleDisconnect(c)

\* _S3gMachine._handle_build_cancelled / _handle_external_stop
HandleBuildCancelled(c) ==
    IF c.m.task # Null /\ c.tasks[c.m.task.n] \notin TaskStopped
    THEN [CancelTask(c, c.m.task.n) EXCEPT !.m.task = Null]
    ELSE c

\* what the machine keeps of a sample and reads again later: of all the
\* values that _poll stores, run() reads _motherboard_status['wait_for_button']
Stored(sample) == [k |-> "telemetry", button |-> sample.button]

\* _S3gMachine._poll after a sample without error
PollSampled(c, sample) ==
    LET d == [c EXCEPT !.m.telemetry = Stored(sample), !.sampled = TRUE] IN
    IF c.m.state = "BUSY"
    THEN IF ~sample.busy /\ sample.finished
         THEN ChangeState(d, "IDLE")
         ELSE d
    ELSE IF sample.busy
    THEN ChangeState(d, "BUSY")
    ELSE d

\* _S3gMachine._poll
Poll(c, sample) ==
    IF c.m.state = "DISCONNECTED"
    THEN c
    ELSE IF c.m.s3g = None
    THEN HandleDisconnect(c)
    ELSE IF sample.k = "telemetry"
    THEN PollSampled(c, sample)
    ELSE IF sample.e = "ActiveBuildError"
    THEN ChangeState(c, "BUSY")
    ELSE IF sample.e \in {"BuildCancelledError", "ExternalStopError"}
    THEN HandleBuildCancelled(c)
    ELSE HandleDisconnect(c)

\* _S3gMachine.connect
ConnectCall(c, how, sample) ==
    IF c.m.state # "DISCONNECTED"
    THEN c
    ELSE IF how = "connect_error"
    THEN [c EXCEPT !.raised = how]
    ELSE LET opened == [c EXCEPT !.m.s3g = "s3g", !.dev.writer = "open"]
             versioned == [opened EXCEPT !.m.firmware_version = "version"]
             counted == [versioned EXCEPT !.m.toolhead_count = "count"]
         IN IF how = "version_error"
            THEN [opened EXCEPT !.raised = how]
            ELSE IF how = "toolhead_error"
            THEN [versioned EXCEPT !.raised = how]
            ELSE Poll(ChangeState(counted, "BUSY"), sample)

\* a print that installs its operation whatever the state is
PrintCallUnchecked(c, skip_start_end, sample) ==
    LET polled == Poll(c, sample)
        n == Len(c.tasks) + 1
    IN ChangeState(
            [polled EXCEPT
                !.tasks = Append(@, "RUNNING"),
                !.m.operation = MakeOperation(Num(n), skip_start_end)],
            "OPERATION")

\* _S3gMachine.print; the caller passes a task it has started
PrintCall(c, skip_start_end, sample) ==
    LET polled == Poll(c, sample)
        n == Len(c.tasks) + 1
    IN IF polled.m.state # "IDLE"
       THEN [polled EXCEPT !.raised = "MachineStateException"]
       ELSE ChangeState(
                [polled EXCEPT
                    !.tasks = Append(@, "RUNNING"),
                    !.m.operation = MakeOperation(Num(n), skip_start_end)],
                "OPERATION")

\* _S3gMachine.cancel and _MakeOperation.cancel
CancelCall(c) ==
    IF c.m.operation = Null
    THEN [c EXCEPT !.raised = "MachineStateException"]
    ELSE IF c.tasks[c.m.operation.task.n] = "RUNNING"
    THEN CancelTask(c, c.m.operation.task.n)
    ELSE c

\* _S3gMachine.pause: the attribute pause of a _MakeOperation is the flag
\* that __init__ has set, not the method, and calling it raises TypeError
PauseCall(c) ==
    IF c.m.operation = Null
    THEN [c EXCEPT !.raised = "MachineStateException"]
    ELSE IF c.m.operation.pause \in BOOLEAN
    THEN [c EXCEPT !.raised = "TypeError"]
    ELSE c

\* the operation of the work thread is the object _operation refers to
SameOperation(c) ==
    c.w.op # Null /\ c.m.operation # Null
    /\ c.w.op.task = c.m.operation.task

\* _S3gMachine.unpause and _MakeOperation.unpause
UnpauseCall(c) ==
    IF c.m.operation = Null
    THEN [c EXCEPT !.raised = "MachineStateException"]
    ELSE IF c.m.operation.pause
    THEN NotifyAll(
            [c EXCEPT !.m.operation.pause = FALSE,
                      !.w.op = IF SameOperation(c)
                               THEN [@ EXCEPT !.pause = FALSE]
                               ELSE @,
                      !.dev.paused = ~@])
    ELSE c

\* _S3gMachine.stop: self._stop = True, before the lock is taken
StopSet(c) == [c EXCEPT !.m.stop = TRUE]

\* _S3gMachine.stop: notify_all() under the lock
StopCall(c) == NotifyAll(c)

\* the step is over: the machine and all around it are as c says
Becomes(c, call) ==
    /\ mach' = c.m
    /\ m_dev' = c.dev
    /\ m_task' = c.tasks
    /\ m_work' = c.w
    /\ m_last' = [call |-> IF c.raised = None THEN None ELSE call,
                  raised |-> c.raised]

\* the samples the poll at the end of connect() may take: it is reached
\* only when nothing was raised before it
PolledAfter(how) ==
    IF how = "ok" /\ mach.state = "DISCONNECTED"
    THEN Samples
    ELSE {[k |-> "error", e |-> "Exception"]}

\* a caller calls connect()
Connect ==
    /\ ~Locked
    /\ \E how \in ConnectOutcomes : \E sample \in PolledAfter(how) :
        Becomes(ConnectCall(MNow, how, sample), "connect")
    /\ UNCHANGED <<m_poll, m_stop, asyncVars, jrVars, rpcVars, thVars, dVars>>

\* a caller calls disconnect()
Disconnect ==
    /\ ~Locked
    /\ Becomes(HandleDisconnect(MNow), "disconnect")
    /\ UNCHANGED <<m_poll, m_stop, asyncVars, jrVars, rpcVars, thVars, dVars>>

\* a caller calls print(...) with a new task
PrintJob ==
    /\ ~Locked
    /\ Len(m_task) < MaxPrints
    /\ \E skip_start_end \in BOOLEAN : \E sample \in Samples :
        Becomes(PrintCall(MNow, skip_start_end, sample), "print")
    /\ UNCHANGED <<m_poll, m_stop, asyncVars, jrVars, rpcVars, thVars, dVars>>

\* a caller calls cancel()
Cancel_ ==
    /\ ~Locked
    /\ Becomes(CancelCall(MNow), "cancel")
    /\ UNCHANGED <<m_poll, m_stop, asyncVars, jrVars, rpcVars, thVars, dVars>>

\* a caller calls pause()
Pause ==
    /\ ~Locked
    /\ Becomes(PauseCall(MNow), "pause")
    /\ UNCHANGED <<m_poll, m_stop, asyncVars, jrVars, rpcVars, thVars, dVars>>

\* a caller calls unpause()
Unpause ==
    /\ ~Locked
    /\ Becomes(UnpauseCall(MNow), "unpause")
    /\ UNCHANGED <<m_poll, m_stop, asyncVars, jrVars, rpcVars, thVars, dVars>>

\* a caller calls stop(): the flag is set
Stop ==
    /\ m_stop = "idle"
    /\ Becomes(StopSet(MNow), "stop")
    /\ m_stop' = "set"
    /\ UNCHANGED <<m_poll, asyncVars, jrVars, rpcVars, thVars, dVars>>

\* stop() takes the lock, notifies and returns
StopNotify ==
    /\ m_stop = "set"
    /\ ~Locked
    /\ Becomes(StopCall(MNow), "stop")
    /\ m_stop' = "returned"
    /\ UNCHANGED <<m_poll, asyncVars, jrVars, rpcVars, thVars, dVars>>

\* _poll_thread_target: while not self._stop
PollLoop ==
    /\ m_poll = "loop"
    /\ m_poll' = IF mach.stop THEN "ended" ELSE "iteration"
    /\ UNCHANGED <<mach, m_dev, m_task, m_work, m_stop, m_last, asyncVars,
                   jrVars, rpcVars, thVars, dVars>>

\* _poll_thread_target_iteration: an iteration whose poll is due
PollIteration ==
    /\ m_poll = "iteration"
    /\ ~Locked
    /\ \E sample \in Samples : Becomes(Poll(MNow, sample), "poll")
    /\ m_poll' = "loop"
    /\ UNCHANGED <<m_stop, asyncVars, jrVars, rpcVars, thVars, dVars>>

\* run() is over or has raised: the work thread goes to the except and
\* finally clauses
Finishing(c, how) == [c EXCEPT !.w.pc = "finish", !.w.how = how]

\* inside wait(...): the lock is released until the thread resumes
Waiting(c, pc) == [c EXCEPT !.w.pc = pc, !.w.lock = FALSE]

\* _MakeOperation.run: while _motherboard_status['wait_for_button']
ButtonLoop(c) ==
    IF c.m.telemetry = Null
    THEN Finishing([c EXCEPT !.w.lock = TRUE], "Exception")
    ELSE IF c.m.telemetry.button
    THEN Waiting(c, "button")
    ELSE [c EXCEPT !.w.pc = "lines", !.w.lock = TRUE, !.w.seg = 1,
                   !.w.line = 0]

\* an _execute_lines that gives a line up when the buffer overflows
ExecuteLineNoRetry(c, outcome) ==
    LET how == IF c.dev.writer # "open" THEN "Exception" ELSE outcome IN
    IF c.w.op.pause
    THEN Waiting(c, "paused")
    ELSE IF how = "ok"
    THEN [c EXCEPT !.w.pc = "lines", !.w.lock = TRUE, !.w.line = @ + 1,
                   !.w.done = Append(@, <<Segments[c.w.seg], c.w.line + 1>>)]
    ELSE IF how = "BufferOverflowError"
    THEN [c EXCEPT !.w.pc = "lines", !.w.lock = TRUE, !.w.line = @ + 1]
    ELSE Finishing([c EXCEPT !.w.lock = TRUE], how)

\* parser.execute_line(line) and what follows it in _execute_lines
ExecuteLine(c, outcome) ==
    LET how == IF c.dev.writer # "open" THEN "Exception" ELSE outcome IN
    IF c.w.op.pause
    THEN Waiting(c, "paused")
    ELSE IF how = "ok"
    THEN [c EXCEPT !.w.pc = "lines", !.w.lock = TRUE, !.w.line = @ + 1,
                   !.w.done = Append(@, <<Segments[c.w.seg], c.w.line + 1>>)]
    ELSE IF how = "BufferOverflowError"
    THEN Waiting(c, "retry")
    ELSE Finishing([c EXCEPT !.w.lock = TRUE], how)

\* run() passes the segment to _execute_lines: not the start and end
\* sequences when skip_start_end, the input file only while the task runs
Enters(c, seg) ==
    IF Segments[seg] = "file"
    THEN c.tasks[c.w.op.task.n] = "RUNNING"
    ELSE ~c.w.op.skip_start_end

\* _work_thread_target: while not self._stop, and the finally clause of
\* the thread once the loop is over
WorkLoop ==
    /\ m_work.pc = "loop"
    /\ LET c == MNow IN
        IF mach.stop
        THEN Becomes([HandleDisconnect(c) EXCEPT !.w.pc = "ended"], "work")
        ELSE Becomes([c EXCEPT !.w.pc = "iteration"], "work")
    /\ UNCHANGED <<m_poll, m_stop, asyncVars, jrVars, rpcVars, thVars, dVars>>

\* _work_thread_target_iteration: with no operation the thread waits, else
\* it calls run()
WorkIteration ==
    /\ m_work.pc = "iteration"
    /\ LET c == MNow IN
        IF mach.operation = Null
        THEN Becomes(Waiting(c, "waiting"), "work")
        ELSE Becomes([c EXCEPT !.w.pc = "begin", !.w.lock = TRUE,
                               !.w.op = mach.operation], "work")
    /\ UNCHANGED <<m_poll, m_stop, asyncVars, jrVars, rpcVars, thVars, dVars>>

\* _MakeOperation.run up to the wait for the button
WorkBegin ==
    /\ m_work.pc = "begin"
    /\ \E outcome \in WorkOutcomes \ {"BufferOverflowError"} :
        LET c == [MNow EXCEPT !.m.task = m_work.op.task]
            how == IF mach.s3g = None THEN "Exception" ELSE outcome
        IN Becomes(IF how = "ok" THEN ButtonLoop(c) ELSE Finishing(c, how),
                   "work")
    /\ UNCHANGED <<m_poll, m_stop, asyncVars, jrVars, rpcVars, thVars, dVars>>

\* the wait of 0.2 s for the button is over
WorkButton ==
    /\ m_work.pc = "button"
    /\ Becomes(ButtonLoop(MNow), "work")
    /\ UNCHANGED <<m_poll, m_stop, asyncVars, jrVars, rpcVars, thVars, dVars>>

\* _MakeOperation.run and _execute_lines at the next line: the segment is
\* entered or skipped, left when its lines are done or the task no longer
\* runs, else the line is executed; after the last segment the task ends
WorkLine ==
    /\ m_work.pc = "lines"
    /\ \E outcome \in WorkOutcomes :
        LET c == MNow
            n == m_work.op.task.n
            next == [c EXCEPT !.w.seg = @ + 1, !.w.line = 0]
        IN Becomes(
            IF m_work.seg > Len(Segments)
            THEN Finishing(c, "done")
            ELSE IF m_work.line = 0 /\ ~Enters(c, m_work.seg)
            THEN next
            ELSE IF m_work.line = MaxLines
            THEN next
            ELSE IF m_task[n] # "RUNNING"
            THEN next
            ELSE ExecuteLine(c, outcome),
            "work")
    /\ UNCHANGED <<m_poll, m_stop, asyncVars, jrVars, rpcVars, thVars, dVars>>

\* a wait in _execute_lines is over, of 0.2 s after BufferOverflowError or
\* of 1 s while paused: the line is tried again
WorkRetry ==
    /\ m_work.pc \in {"retry", "paused"}
    /\ \E outcome \in WorkOutcomes :
        Becomes(ExecuteLine(MNow, outcome), "work")
    /\ UNCHANGED <<m_poll, m_stop, asyncVars, jrVars, rpcVars, thVars, dVars>>

\* the end of _MakeOperation.run: the task ends if it still runs, or the
\* except clause for what was raised; the finally clauses of run and of
\* _work_thread_target_iteration; then wait()
WorkFinish ==
    /\ m_work.pc = "finish"
    /\ LET c == MNow
           n == m_work.op.task.n
           ended == IF m_work.how = "done"
                    THEN StopTask(c, n, "ENDED")
                    ELSE IF m_work.how \in {"OverheatError", "Exception"}
                    THEN StopTask(c, n, "FAILED")
                    ELSE HandleBuildCancelled(c)
       IN Becomes([ended EXCEPT !.m.operation = Null, !.m.task = Null,
                                !.w = WorkAt("waiting")],
                  "work")
    /\ UNCHANGED <<m_poll, m_stop, asyncVars, jrVars, rpcVars, thVars, dVars>>

\* _S3gMachine._create: the machine is new and both threads have started
InitMachine ==
    /\ mach = MachineNew
    /\ m_dev = [writer |-> "none", paused |-> FALSE]
    /\ m_task = <<>>
    /\ m_work = WorkAt("loop")
    /\ m_poll = "loop"
    /\ m_stop = "idle"
    /\ m_last = [call |-> None, raised |-> None]

NextMachine ==
    \/ Connect \/ Disconnect \/ PrintJob \/ Pause \/ Unpause \/ Cancel_
    \/ Stop \/ StopNotify \/ PollLoop \/ PollIteration
    \/ WorkLoop \/ WorkIteration \/ WorkBegin \/ WorkButton
    \/ WorkLine \/ WorkRetry \/ WorkFinish

(***************************************************************************)
(* S3gDriver.new_machine_from_port, with the ports of the discovery        *)
(* subsystem and the callers that bind them                                *)
(***************************************************************************)
Ports == {"port1", "port2"}

\* the names of the profiles, of the driver's catalogue and as detected
ProfileNames == {"Replicator", "Thingomatic"}

\* the driver's machines and the ports at the start of a call
DriverNow == [machines |-> d_machines, port |-> d_port]

\* S3gDriver.new_machine_from_port: what it leaves, raises and returns; the
\* name s3g_profile is assigned only when no profile is given, and no
\* statement binds the port
NewMachineFromPort(d, port, profile, detected) ==
    LET machine == d.port[port] IN
    IF machine # 0
    THEN IF profile # None /\ profile # d.machines[machine].profile
         THEN [d |-> d, raised |-> "ProfileMismatchException",
               returned |-> 0]
         ELSE [d |-> d, raised |-> None, returned |-> machine]
    ELSE IF profile = None
    THEN [d |-> [d EXCEPT !.machines = Append(@, [profile |-> detected])],
          raised |-> None, returned |-> Len(d.machines) + 1]
    ELSE [d |-> d, raised |-> "UnboundLocalError", returned |-> 0]

\* a caller calls new_machine_from_port(port, profile)
DriverNewMachine ==
    /\ Len(d_machines) < MaxMachines
    /\ \E port \in Ports, profile \in ProfileNames \cup {None},
          detected \in ProfileNames :
        LET r == NewMachineFromPort(DriverNow, port, profile, detected) IN
            /\ d_machines' = r.d.machines
            /\ d_port' = r.d.port
            /\ d_last' = [call |-> "new_machine_from_port", port |-> port,
                          profile |-> profile, bound |-> d_port[port],
                          raised |-> r.raised, returned |-> r.returned]
    /\ UNCHANGED <<asyncVars, jrVars, rpcVars, thVars, mVars>>

\* a caller binds a port to a machine it holds
DriverBind ==
    /\ \E port \in Ports, machine \in 1..Len(d_machines) :
        /\ d_port[port] # machine
        /\ d_port' = [d_port EXCEPT ![port] = machine]
        /\ d_last' = [call |-> "bind", port |-> port, profile |-> None,
                      bound |-> d_port[port], raised |-> None,
                      returned |-> 0]
    /\ UNCHANGED <<d_machines, asyncVars, jrVars, rpcVars, thVars, mVars>>

\* the machine of a port goes away: the weak reference of the port is dead
DriverUnbind ==
    /\ \E port \in Ports :
        /\ d_port[port] # 0
        /\ d_port' = [d_port EXCEPT ![port] = 0]
        /\ d_last' = [call |-> "unbind", port |-> port, profile |-> None,
                      bound |-> d_port[port], raised |-> None,
                      returned |-> 0]
    /\ UNCHANGED <<d_machines, asyncVars, jrVars, rpcVars, thVars, mVars>>

\* S3gDriver.__init__: no machine yet, no port bound
InitDriver ==
    /\ d_machines = <<>>
    /\ d_port = [port \in Ports |-> 0]
    /\ d_last = [call |-> None, port |-> None, profile |-> None,
                 bound |-> 0, raised |-> None, returned |-> 0]

NextDriver == DriverNewMachine \/ DriverBind \/ DriverUnbind

InitAsync ==
    /\ async = AsyncNew
    /\ a_last = [event |-> None, via |-> None, raised |-> FALSE]

InitJrIdle ==
    /\ jr = JrReset
    /\ jr_out = <<>>
    /\ jr_fed = <<>>
    /\ jr_pc = "idle"
    /\ jr_ret = None
    /\ jr_input = <<>>
    /\ jr_pos = 0

\* JsonRpc.__init__
InitRpc ==
    /\ rpc = [methods |-> {}, tasks |-> <<>>, stopped |-> <<>>,
              idcounter |-> 0]
    /\ rpc_op = [name |-> "none", indata |-> Null]
    /\ rpc_log = [invoked |-> <<>>, route |-> <<>>]
    /\ rpc_outfp = <<>>

\* no thread has called yet, both locks are free, the streams are empty
InitThreads ==
    /\ t_thr = [t \in Threads |-> ThreadIdle(t)]
    /\ t_lock = [idcounter |-> None, outfp |-> None]
    /\ t_outfp = [buf |-> <<>>, flushed |-> 0]
    /\ t_infp = <<>>
    /\ t_hist = [calls |-> 0, inbound |-> FALSE, minted |-> <<>>,
                 answered |-> {}, handled |-> {}, returned |-> {}]

InitA ==
    /\ InitAsync /\ InitJrIdle /\ InitRpc /\ InitThreads /\ InitMachine
    /\ InitDriver

\* one machine under any calls, any device behaviour and any scheduling of
\* its two threads
SpecMachine == InitA /\ [][NextMachine]_vars

\* the driver under any calls for its ports
SpecDriver == InitA /\ [][NextDriver]_vars

NextThreads ==
    \/ CallRequest \/ CallNotify \/ LockId \/ ReadId \/ IncrId
    \/ LockOut \/ Write \/ WriteRest \/ Flush \/ UnlockOut
    \/ Register \/ Start \/ PeerRespond \/ PeerRequest \/ ReaderHandle

\* the endpoint with two caller threads, the reader thread and the peer
SpecThreads == InitA /\ [][NextThreads]_vars

NextRpc ==
    \/ JsonReaderCallback \/ Request \/ AddMethod \/ DelMethod
    \/ TaskCancel \/ RpcObserve

\* the endpoint under any inbound values and any calls of its operations
SpecRpc == InitA /\ [][NextRpc]_vars

NextAsync == TransitionCall \/ Trigger \/ Cancel

\* the Async object under any sequence of calls
SpecAsync == InitA /\ [][NextAsync]_vars

\* the framer under any bytes, fed in any chunks by feed()
SpecFramer == InitA /\ [][JrFeed]_vars

NextFramerRun == JrFeedFile \/ JrRun \/ JrRead \/ JrReadEof

\* the framer under any bytes, read in any chunks by feedfile() and run()
SpecFramerRun == InitA /\ [][NextFramerRun]_vars

InitV ==
    /\ InitAsync
    /\ InitRpc
    /\ InitThreads
    /\ InitMachine
    /\ InitDriver
    /\ jr = JrReset
    /\ jr_out = <<>>
    /\ jr_fed = <<>>
    /\ jr_pc = "idle"
    /\ jr_ret = None
    /\ jr_input \in ValueInputs
    /\ jr_pos = 0

\* the framer fed one JSON-like value, in any chunks
SpecFramerValue == InitV /\ [][JrFeedInput]_vars

(***************************************************************************)
(* Properties of Async                                                     *)
(***************************************************************************)
AsyncTerminal == {"SUCCESS", "ERROR", "TIMEOUT", "CANCELED"}

\* the table of legal transitions, as the specification gives it
LegalTarget(state, event) ==
    IF state = "PENDING" /\ event = "START" THEN "RUNNING"
    ELSE IF state = "PENDING" /\ event = "CANCEL" THEN "CANCELED"
    ELSE IF state = "RUNNING" /\ event = "HEARTBEAT" THEN "RUNNING"
    ELSE IF state = "RUNNING" /\ event = "REPLY" THEN "SUCCESS"
    ELSE IF state = "RUNNING" /\ event = "ERROR" THEN "ERROR"
    ELSE IF state = "RUNNING" /\ event = "TIMEOUT" THEN "TIMEOUT"
    ELSE IF state = "RUNNING" /\ event = "CANCEL" THEN "CANCELED"
    ELSE None

\* C1: a call of _transition in PENDING or RUNNING moves the Async to the
\* state the table gives for (state, event) without raising, and for every
\* pair the table does not list it raises IllegalTransition and leaves the
\* state unchanged.
C1_TransitionTable ==
    [][(a_last'.via = "_transition" /\ async.state \in {"PENDING", "RUNNING"})
        => IF LegalTarget(async.state, a_last'.event) # None
           THEN /\ async'.state = LegalTarget(async.state, a_last'.event)
                /\ ~a_last'.raised
           ELSE /\ a_last'.raised
                /\ async'.state = async.state]_vars

\* C1 witness: a RUNNING Async has taken TIMEOUT through _transition
C1_Witness ==
    /\ async.state = "TIMEOUT"
    /\ a_last = [event |-> "TIMEOUT", via |-> "_transition", raised |-> FALSE]
    /\ async.fired["START"] # <<>>

\* C2: once the Async is in SUCCESS, ERROR, TIMEOUT or CANCELED no call
\* changes it: its state, its latched values and the events fired stay as
\* they are, CANCEL does not raise, and every other event passed to
\* _transition raises IllegalTransition.
C2_TerminalAbsorbs ==
    [][async.state \in AsyncTerminal
        => /\ async' = async
           /\ a_last'.via = "_transition"
                => (a_last'.raised <=> a_last'.event # "CANCEL")
           /\ a_last'.via = "trigger" => ~a_last'.raised]_vars

\* C2 witness: CANCEL has been absorbed by an Async that had succeeded
C2_Witness ==
    /\ async.state = "SUCCESS"
    /\ a_last.event = "CANCEL"
    /\ ~a_last.raised
    /\ async.fired["CANCEL"] = <<>>

(***************************************************************************)
(* Properties of the framer                                                *)
(***************************************************************************)
RECURSIVE Concat(_)
\* the concatenation of the data of a log of sends
Concat(log) ==
    IF log = <<>> THEN <<>> ELSE log[1].data \o Concat(Tail(log))

IsEmit(rec) == rec.kind = "emit"

\* the strings handed to the listeners, in order
Emitted(log) ==
    LET e == SelectSeq(log, IsEmit) IN [i \in 1..Len(e) |-> e[i].data]

\* no feedeof has sent or dropped anything yet
OnlyFed == \A i \in 1..Len(jr_out) : jr_out[i].by # "feedeof"

\* the reader after one feed() of all the bytes fed so far
OneShot == JrFeedData([r |-> JrReset, out |-> <<>>], jr_fed)

\* C3: however the bytes were split into feed() calls, the strings emitted
\* (and the bytes left buffered) are those of a single feed() of the same
\* bytes.
C3_ChunkingIndependent ==
    OnlyFed => /\ Emitted(jr_out) = Emitted(OneShot.out)
               /\ jr = OneShot.r

\* C3 witness: a nested value fed in at least two calls has been emitted
C3_Witness ==
    /\ OnlyFed
    /\ jr_fed = <<"[", "{", "}", "]">>
    /\ Len(jr_fed) > MaxChunk
    /\ Emitted(jr_out) = <<jr_fed>>

\* C4: the strings sent so far followed by the buffered bytes are the bytes
\* fed so far; what is emitted is never blank; what is dropped is a blank
\* buffer, and only feedeof drops one.
C4_ConservesBytes ==
    /\ Concat(jr_out) \o jr.buffer = jr_fed
    /\ \A i \in 1..Len(jr_out) :
        /\ jr_out[i].kind = "emit" => ~IsBlank(jr_out[i].data)
        /\ jr_out[i].kind = "drop" => /\ IsBlank(jr_out[i].data)
                                      /\ jr_out[i].by = "feedeof"

\* C4 witness: a string emitted, a blank buffer dropped by feedeof, and a
\* byte buffered again
C4_Witness ==
    /\ Len(Emitted(jr_out)) = 1
    /\ Len(jr_out) = 2
    /\ jr_out[2].kind = "drop"
    /\ jr.buffer = <<"{">>

\* the fixed input has been fed to its end
FedAll == jr_pos = Len(jr_input)

\* C5: fed a value (after optional whitespace), the framer emits nothing
\* while the outermost structure is open, and when its closer has been fed
\* it has emitted exactly once, the whole input, and is back in state 0 with
\* an empty stack and an empty buffer.
C5_EmitsOnOutermostCloser ==
    /\ ~FedAll => jr_out = <<>>
    /\ FedAll => /\ Emitted(jr_out) = <<jr_input>>
                 /\ Len(jr_out) = 1
                 /\ jr = JrReset

\* C5 witness: a value nested three deep has been fed to its end
C5_Witness ==
    /\ jr_input = <<"{", "[", "{", "}", "]", "}">>
    /\ FedAll
    /\ jr_out # <<>>

RECURSIVE Mode(_, _)
\* JSON's string syntax: where the first i bytes of s end, outside a string
\* ("out"), inside one ("str") or inside one right after a backslash ("esc")
Mode(s, i) ==
    IF i = 0 THEN "out"
    ELSE LET m == Mode(s, i - 1) IN
         IF m = "out" THEN (IF s[i] = "\"" THEN "str" ELSE "out")
         ELSE IF m = "esc" THEN "str"
         ELSE IF s[i] = "\"" THEN "out"
         ELSE IF s[i] = "\\" THEN "esc"
         ELSE "str"

RECURSIVE Depth(_, _)
\* the structures open after the first i bytes of s: openers less closers,
\* those inside strings not counted
Depth(s, i) ==
    IF i = 0 THEN 0
    ELSE Depth(s, i - 1)
         + (IF Mode(s, i - 1) = "out" /\ s[i] \in Openers THEN 1 ELSE 0)
         - (IF Mode(s, i - 1) = "out" /\ s[i] \in Closers THEN 1 ELSE 0)

\* s has a string with a bracket or an escaped quote in it
Tricky(s) ==
    \E i \in 1..Len(s) :
        \/ Mode(s, i - 1) = "str" /\ s[i] \in Openers \cup Closers
        \/ Mode(s, i - 1) = "esc" /\ s[i] = "\""

\* C6: while a value is fed the framer is in its string states exactly
\* inside a string, a quote after a backslash included, and its stack counts
\* the brackets outside strings only; a value with a bracket or an escaped
\* quote inside a string is emitted once, whole, when its last byte is fed,
\* and not before, however it is chunked.
C6_StringsAreOpaque ==
    /\ ~FedAll => /\ Len(jr.stack) = Depth(jr_input, jr_pos)
                  /\ Mode(jr_input, jr_pos) = "str" <=> jr.state = 2
                  /\ Mode(jr_input, jr_pos) = "esc" <=> jr.state = 3
    /\ Tricky(jr_input) =>
        Emitted(jr_out) = IF FedAll THEN <<jr_input>> ELSE <<>>

\* C6 witness: a value whose string holds an escaped quote and a closer has
\* been fed to its end
C6_Witness ==
    /\ jr_input = <<"{", "\"", "\\", "\"", "}", "\"", "}">>
    /\ FedAll
    /\ Emitted(jr_out) = <<jr_input>>

\* all bytes fed have been sent and none is buffered
AllSent == jr = JrReset /\ Concat(jr_out) = jr_fed

\* C7 as claimed: when feedfile returns, the trailing bytes have been sent
\* and the buffer is empty.
C7_FeedfileFlushes ==
    jr_ret = "feedfile" => AllSent

\* C7 as amended: when run() returns, after its feedfile and its feedeof,
\* every byte read has been sent (emitted unless blank) and the reader is
\* back in state 0 with an empty stack and an empty buffer.
C7_RunFlushes ==
    jr_ret = "run" => AllSent

\* C7 witness: run() has returned and its feedeof emitted an unfinished value
C7_Witness ==
    /\ jr_ret = "run"
    /\ jr_out # <<>>
    /\ jr_out[Len(jr_out)] =
        [data |-> <<"{", "\"">>, kind |-> "emit", by |-> "feedeof"]

(***************************************************************************)
(* Properties of the endpoint                                              *)
(***************************************************************************)
\* the value the last callback handled
In == rpc_op.indata

Handled == rpc_op.name = "callback"

\* an error response as it goes out: code, message, id, no data
ErrorReply(code, message, id) ==
    [jsonrpc |-> "2.0", error |-> [code |-> code, message |-> message],
     id |-> id]

\* the id an invalid-request reply carries for an object
IdOrNull(obj) == IF obj.id = Absent THEN Null ELSE obj.id

RequestShaped(v) ==
    v.k = "obj" /\ v.jsonrpc = Str("2.0") /\ v.method.k = "str"

ResponseShaped(v) ==
    /\ v.k = "obj"
    /\ ~RequestShaped(v)
    /\ v.jsonrpc = Str("2.0")
    /\ (v.result # Absent \/ v.error # Absent)

\* C8: a request-shaped object goes to request dispatch; else a
\* response-shaped object is correlated and nothing is written; any other
\* object is answered invalid request (-32600) with its id, or null when it
\* has none; an empty array and a value that is neither object nor array are
\* answered invalid request with id null.
C8_Classification ==
    Handled =>
        /\ RequestShaped(In) => rpc_log.route = <<"request">>
        /\ ResponseShaped(In) =>
            /\ rpc_log.route = <<"response">>
            /\ rpc_outfp = <<>>
            /\ rpc_log.invoked = <<>>
        /\ (In.k = "obj" /\ ~RequestShaped(In) /\ ~ResponseShaped(In)) =>
            /\ rpc_outfp = <<ErrorReply(-32600, "invalid request",
                                        IdOrNull(In))>>
            /\ rpc_log.invoked = <<>>
        /\ (In = Arr(<<>>) \/ In.k \in {"num", "str", "null"}) =>
            /\ rpc_outfp = <<ErrorReply(-32600, "invalid request", Null)>>
            /\ rpc_log.invoked = <<>>

\* C8 witness: an object whose method is a number has been answered invalid
\* request with its own id
C8_Witness ==
    /\ Handled
    /\ In.k = "obj"
    /\ In.jsonrpc = Str("2.0")
    /\ In.method = Num(1)
    /\ In.result = Absent
    /\ In.error = Absent
    /\ In.id = Str("a")
    /\ rpc_outfp = <<ErrorReply(-32600, "invalid request", Str("a"))>>

\* C9: handling an emission that is not valid JSON writes exactly one
\* response, the error -32700 "parse error" with id null, invokes no handler
\* and leaves the endpoint (methods, pending tasks, stopped tasks, id
\* counter) as it was, ready for the next input.
C9_ParseError ==
    [][(rpc_op'.name = "callback" /\ rpc_op'.indata = Garbage)
        => /\ rpc_outfp' = <<ErrorReply(-32700, "parse error", Null)>>
           /\ rpc_log'.invoked = <<>>
           /\ rpc' = rpc]_vars

\* C9 witness: a parse error has been answered while a request was pending
C9_Witness ==
    /\ Handled
    /\ In = Garbage
    /\ DOMAIN rpc.tasks # {}
    /\ rpc_outfp = <<ErrorReply(-32700, "parse error", Null)>>

\* the call a handler received
CallOf(inv) == [method |-> inv.method, args |-> inv.args, kwargs |-> inv.kwargs]

\* C10: for a request-shaped object, a method that is not registered at that
\* time is answered -32601 with the request's id and no handler runs; a
\* registered method is called once, with no arguments when params is
\* absent, with the array as positional arguments, with the object as
\* keyword arguments; any other params is answered -32602 with the request's
\* id and no handler runs.
C10_Dispatch ==
    (Handled /\ RequestShaped(In)) =>
        IF In.method.s \notin rpc.methods
        THEN /\ rpc_log.invoked = <<>>
             /\ In.id # Absent =>
                  rpc_outfp = <<ErrorReply(-32601, "method not found", In.id)>>
        ELSE IF In.params = Absent
        THEN /\ Len(rpc_log.invoked) = 1
             /\ CallOf(rpc_log.invoked[1]) =
                  [method |-> In.method.s, args |-> List(0), kwargs |-> Dict(0)]
        ELSE IF In.params.k = "list"
        THEN /\ Len(rpc_log.invoked) = 1
             /\ CallOf(rpc_log.invoked[1]) =
                  [method |-> In.method.s, args |-> In.params,
                   kwargs |-> Dict(0)]
        ELSE IF In.params.k = "dict"
        THEN /\ Len(rpc_log.invoked) = 1
             /\ CallOf(rpc_log.invoked[1]) =
                  [method |-> In.method.s, args |-> List(0),
                   kwargs |-> In.params]
        ELSE /\ rpc_log.invoked = <<>>
             /\ In.id # Absent =>
                  rpc_outfp = <<ErrorReply(-32602, "invalid params", In.id)>>

\* C10 witness: a request with a string for params has been answered invalid
\* params, its method being registered
C10_Witness ==
    /\ Handled
    /\ RequestShaped(In)
    /\ In.method.s \in rpc.methods
    /\ In.params = Str("x")
    /\ In.id = Num(1)
    /\ rpc_outfp = <<ErrorReply(-32602, "invalid params", Num(1))>>

\* the reply the handler's outcome calls for, for a request with this id
ReplyFor(how, id) ==
    IF how = "return"
    THEN [jsonrpc |-> "2.0", result |-> "result", id |-> id]
    ELSE IF how = "typeerror"
    THEN ErrorReply(-32602, "invalid params", id)
    ELSE IF how = "rpcerror"
    THEN [jsonrpc |-> "2.0",
          error |-> [code |-> 1, message |-> "message", data |-> "data"],
          id |-> id]
    ELSE [jsonrpc |-> "2.0",
          error |-> [code |-> -32000, message |-> "uncaught exception",
                     data |-> [name |-> "Exception", args |-> <<"message">>,
                               message |-> "message"]],
          id |-> id]

\* a request that carries an id value, names a registered method and has
\* array or object params
Callable(v) ==
    /\ RequestShaped(v)
    /\ v.id \notin {Absent, Null}
    /\ v.method.s \in rpc.methods
    /\ v.params.k \in {"list", "dict"}

IsNotification(v) == RequestShaped(v) /\ v.id = Absent

\* C12: for every inbound notification (a request-shaped object without id)
\* the endpoint writes nothing: method not found, invalid params, signature
\* mismatch, explicit RPC error and uncaught exception are dropped, and a
\* handler that returns produces no reply.
C12_NotificationsSilent ==
    (Handled /\ IsNotification(In)) => rpc_outfp = <<>>

\* C13: a request-shaped object whose id member is present, with a string, a
\* number or null, is answered with exactly one response that echoes that id.
C13_IdPresentAnswered ==
    (Handled /\ RequestShaped(In) /\ In.id # Absent) =>
        /\ Len(rpc_outfp) = 1
        /\ rpc_outfp[1].id = In.id

\* the id the entry for a batch element carries
EntryId(v) == IF v.k = "obj" THEN IdOrNull(v) ELSE Null

\* the batch elements that call for an entry in the reply: all but the
\* notifications, and the responses of the peer, which are never answered
WantsEntry(v) == ~IsNotification(v) /\ ~ResponseShaped(v)

\* C14: for a non-empty batch the endpoint writes one reply, an array with
\* exactly one entry per non-notification element, in the order of the
\* elements; when no element calls for an entry nothing is written.
C14_BatchEntries ==
    (Handled /\ In.k = "arr" /\ Len(In.elems) > 0) =>
        LET want == SelectSeq(In.elems, WantsEntry) IN
        IF want = <<>>
        THEN rpc_outfp = <<>>
        ELSE /\ Len(rpc_outfp) = 1
             /\ Len(rpc_outfp[1].items) = Len(want)
             /\ \A i \in 1..Len(want) :
                    rpc_outfp[1].items[i].id = EntryId(want[i])

\* the ids request() has registered so far
Registered == 0..(rpc.idcounter - 1)

\* the pending map holds exactly the registered ids whose task has not
\* stopped
PendingExact == DOMAIN rpc.tasks = Registered \ DOMAIN rpc.stopped

\* the callback has just handled a response whose id was pending
AnswersPending ==
    /\ rpc_op'.name = "callback"
    /\ ResponseShaped(rpc_op'.indata)
    /\ rpc_op'.indata.id.k = "num"
    /\ rpc_op'.indata.id.n \in DOMAIN rpc.tasks

C15_IdsIncrease ==
    \A i, j \in 1..Len(t_hist.minted) :
        i < j => t_hist.minted[i] < t_hist.minted[j]

\* C15 witness: both callers are inside request() at once, one waiting for
\* the id lock while the other holds it with id 0 read and the counter not
\* yet incremented
C15_Witness ==
    /\ t_thr["c1"].call = "request"
    /\ t_thr["c1"].pc = "incr_id"
    /\ t_thr["c1"].id = Num(0)
    /\ t_thr["c2"].call = "request"
    /\ t_thr["c2"].pc = "lock_id"
    /\ rpc.idcounter = 0

\* the reader has handled the peer's response to request n and the request()
\* call that minted n has returned its task
Settled(n) == n \in t_hist.handled /\ n \in t_hist.returned

\* C17: for every interleaving of a caller running request() with the reader
\* running run(), once the peer's response to the request has been handled
\* and request() has returned, the task is ENDED or FAILED.
C17_AnsweredRequestsStop ==
    \A n \in 0..(rpc.idcounter - 1) :
        Settled(n) =>
            /\ n \in DOMAIN rpc.stopped
            /\ rpc.stopped[n].state \in {"ENDED", "FAILED"}

\* the pieces on the stream from position i on start a whole message
WholeAt(i) ==
    /\ t_outfp.buf[i].part = "head"
    /\ i < Len(t_outfp.buf)
    /\ t_outfp.buf[i + 1] = [t_outfp.buf[i] EXCEPT !.part = "tail"]

\* the threads inside the with block of _send
InSend == {t \in Threads : t_thr[t].pc \in {"write", "write_rest", "flush",
                                            "unlock"}}

\* C18: the output stream is always a concatenation of whole messages, the
\* last one possibly still being written by the holder of the output lock;
\* only the holder of the lock is inside write and flush, and when the lock
\* is free everything written is flushed.
C18_SendsDoNotInterleave ==
    /\ \A i \in 1..Len(t_outfp.buf) :
        IF t_outfp.buf[i].part = "tail"
        THEN i > 1 /\ WholeAt(i - 1)
        ELSE \/ WholeAt(i)
             \/ /\ i = Len(t_outfp.buf)
                /\ t_lock.outfp = t_outfp.buf[i].by
                /\ t_thr[t_outfp.buf[i].by].pc = "write_rest"
    /\ \A t \in InSend : t_lock.outfp = t
    /\ t_lock.outfp = None => t_outfp.flushed = Len(t_outfp.buf)

\* C18 witness: a caller has written the first piece of its request, after
\* a whole reply of the reader thread, while the other caller waits for the
\* output lock
C18_Witness ==
    /\ t_thr["c1"].pc = "write_rest"
    /\ t_thr["c1"].call = "request"
    /\ t_thr["c2"].pc = "send"
    /\ t_lock.outfp = "c1"
    /\ Len(t_outfp.buf) = 3
    /\ t_outfp.buf[1].by = Reader
    /\ t_outfp.buf[3].by = "c1"

(***************************************************************************)
(* Properties of the machine                                               *)
(***************************************************************************)
\* C19: in every state another thread can see (no thread is inside the
\* machine's lock), a connect() that failed part-way and every poll error
\* included, the state is DISCONNECTED exactly when the device handle is
\* null.
C19_DisconnectedIffNoHandle ==
    ~Locked => (mach.state = "DISCONNECTED" <=> mach.s3g = None)

\* C20: in every state another thread can see, the operation field is null
\* exactly when the state is not OPERATION, across print(), the work thread
\* finishing an operation, polling and disconnect.
C20_OperationIffState ==
    ~Locked => (mach.operation = Null <=> mach.state # "OPERATION")

\* C21: at most one operation is present on a machine at any time: whenever
\* the work thread is running an operation and an operation is installed,
\* they are the same operation, so that no print() installs a second one and
\* the finally clause of run() never clears one it did not run.
C21_OneOperation ==
    (m_work.op # Null /\ mach.operation # Null)
        => mach.operation.task = m_work.op.task

\* a call left the operation, the task of the machine and every task as
\* they were in c
Untouched(c, r) ==
    /\ r.m.operation = c.m.operation
    /\ r.m.task = c.m.task
    /\ r.tasks = c.tasks

\* pause(), unpause() and cancel() as called in the current state
OperationCalls == {PauseCall(MNow), UnpauseCall(MNow), CancelCall(MNow)}

\* C22 as stated: in every state in which a caller can enter, print() called
\* while the state is not IDLE raises MachineStateException and leaves
\* operation and tasks as they were, and pause(), unpause() and cancel()
\* called with no operation do the same.
C22_RejectedOutsideIdle ==
    ~Locked =>
        /\ mach.state # "IDLE" =>
            \A skip_start_end \in BOOLEAN, sample \in Samples :
                LET r == PrintCall(MNow, skip_start_end, sample) IN
                    /\ r.raised = "MachineStateException"
                    /\ Untouched(MNow, r)
        /\ mach.operation = Null =>
            \A r \in OperationCalls :
                /\ r.raised = "MachineStateException"
                /\ Untouched(MNow, r)

\* C22 amended: print() polls first and is rejected with
\* MachineStateException exactly when the state after that poll is not IDLE;
\* a rejected print() leaves the machine, the device and the tasks as its
\* poll left them, an accepted one installs one operation for one new
\* task; pause(), unpause() and cancel() called with no operation raise
\* MachineStateException and change nothing.
C22_RejectedAfterPoll ==
    ~Locked =>
        /\ \A skip_start_end \in BOOLEAN, sample \in Samples :
            LET polled == Poll(MNow, sample)
                r == PrintCall(MNow, skip_start_end, sample)
            IN IF polled.m.state # "IDLE"
               THEN /\ r.raised = "MachineStateException"
                    /\ r.m = polled.m
                    /\ r.dev = polled.dev
                    /\ r.tasks = polled.tasks
               ELSE /\ r.raised = None
                    /\ r.m.state = "OPERATION"
                    /\ r.m.operation # Null
                    /\ r.m.operation.task = Num(Len(m_task) + 1)
                    /\ Len(r.tasks) = Len(m_task) + 1
                    /\ \A n \in 1..Len(m_task) : r.tasks[n] = polled.tasks[n]
        /\ mach.operation = Null =>
            \A r \in OperationCalls :
                /\ r.raised = "MachineStateException"
                /\ r.m = mach
                /\ r.dev = m_dev
                /\ r.tasks = m_task

\* C22 witness: a print() was rejected after its poll had torn the machine
\* down under a task that was running
C22_Witness ==
    /\ m_last = [call |-> "print", raised |-> "MachineStateException"]
    /\ mach.state = "DISCONNECTED"
    /\ mach.operation = Null
    /\ m_task = <<"RUNNING">>

\* the work thread has finished running the operation of the last print()
\* and the machine is still connected
OperationOver ==
    /\ ~Locked
    /\ m_task # <<>>
    /\ m_task[Len(m_task)] \in TaskStopped
    /\ mach.operation = Null
    /\ m_work.op = Null
    /\ mach.state # "DISCONNECTED"
    /\ mach.s3g # None

\* C23: once the work thread has finished an operation, a print() whose poll
\* finds the device connected, not busy and finished is accepted: the
\* machine has left OPERATION and is IDLE again.
C23_IdleAfterOperation ==
    OperationOver =>
        \A skip_start_end \in BOOLEAN, sample \in Telemetry :
            (~sample.busy /\ sample.finished) =>
                LET r == PrintCall(MNow, skip_start_end, sample) IN
                    /\ r.raised = None
                    /\ r.m.operation # Null

\* the operation installed or the operation the work thread runs is the one
\* of task n
Held(n) ==
    \/ mach.operation # Null /\ mach.operation.task = Num(n)
    \/ m_work.op # Null /\ m_work.op.task = Num(n)

\* C24: the task of every accepted print() reaches ENDED, FAILED or
\* CANCELED; for that, a task that still runs is always the task of the
\* operation installed or of the operation the work thread is running, the
\* only places from which the machine can ever stop it.
C24_RunningTaskIsHeld ==
    \A n \in 1..Len(m_task) : m_task[n] = "RUNNING" => Held(n)

\* the machine with threads that keep running: the poll thread polls again
\* and again, the work thread takes every step it can take (a timed wait
\* ends however often the step after it would change nothing), and a
\* stop() that has set the flag goes on to notify
SpecMachineFair ==
    /\ SpecMachine
    /\ WF_vars(PollLoop) /\ WF_vars(PollIteration)
    /\ WF_vars(WorkLoop) /\ WF_vars(WorkIteration) /\ WF_vars(WorkBegin)
    /\ SF_vars(WorkButton) /\ WF_vars(WorkLine) /\ SF_vars(WorkRetry)
    /\ WF_vars(WorkFinish) /\ WF_vars(StopNotify)

\* the work thread is inside run() of an operation whose task is canceled
CanceledInRun ==
    /\ m_work.op # Null
    /\ m_task[m_work.op.task.n] = "CANCELED"

\* C25: once the task of the operation that the work thread runs has been
\* canceled, while it waits for the button or retries a line included, run()
\* eventually returns and the machine's operation is cleared.
C25_CancelUnwinds ==
    CanceledInRun ~> (m_work.op = Null /\ mach.operation = Null)

\* C26: pause() called with an operation present returns with the
\* operation's paused flag set, after one pause toggle of the device if the
\* flag was not set before and none if it was, and unpause() returns with the
\* flag cleared, after one toggle if it was set and none if it was not, so
\* that the device-side pause state equals the flag.
C26_PauseKeepsInStep ==
    (~Locked /\ mach.operation # Null) =>
        LET was == mach.operation.pause
            p == PauseCall(MNow)
            u == UnpauseCall(MNow)
        IN /\ p.raised = None
           /\ p.m.operation.pause
           /\ p.dev.paused = (IF was THEN m_dev.paused ELSE ~m_dev.paused)
           /\ u.raised = None
           /\ ~u.m.operation.pause
           /\ u.dev.paused = (IF was THEN ~m_dev.paused ELSE m_dev.paused)
           /\ m_dev.paused = was

\* C27: after stop() has returned both thread loops end without any further
\* call on the machine: the work thread is never left inside the wait()
\* without timeout once stop() has returned and the poll thread, the only
\* other thread that could notify it, has ended.
C27_StopEndsThreads ==
    ~(/\ m_stop = "returned"
      /\ m_poll = "ended"
      /\ m_work.pc = "waiting")

\* the errors of a poll that the code treats as fatal
FatalPollErrors ==
    PollErrors \ {"ActiveBuildError", "BuildCancelledError",
                  "ExternalStopError"}

\* the machine of c is fully torn down
TornDown(c) ==
    /\ c.dev.writer # "open"
    /\ c.m.s3g = None
    /\ c.m.firmware_version = None
    /\ c.m.toolhead_count = None
    /\ c.m.telemetry = Null
    /\ c.m.operation = Null
    /\ c.m.task = Null
    /\ c.m.state = "DISCONNECTED"

\* C28: a fatal error of the driver fully tears the machine down, whether a
\* poll of a connected machine raises it or the work of an operation does:
\* when the work thread leaves run() after such an error the writer is
\* closed, handle, telemetry, operation and task are null and the state is
\* DISCONNECTED.
C28_FatalTearsDown ==
    [][/\ (~Locked /\ mach.state # "DISCONNECTED") =>
            \A e \in FatalPollErrors :
                TornDown(Poll(MNow, [k |-> "error", e |-> e]))
       /\ (/\ m_work.pc = "finish"
           /\ m_work.how \in {"OverheatError", "Exception"}
           /\ m_work'.pc # "finish") =>
            TornDown([m |-> mach', dev |-> m_dev'])]_vars

(***************************************************************************)
(* Properties of the driver                                                *)
(***************************************************************************)
\* C29: new_machine_from_port(port, profile) returns the machine bound to
\* the port, raises ProfileMismatchException when a profile is given that
\* differs from that machine's, and for a port with no machine creates a
\* machine, with or without a profile given, and binds it to the port.
C29_NewMachineFromPort ==
    d_last.call = "new_machine_from_port" =>
        IF d_last.bound # 0
        THEN IF /\ d_last.profile # None
                /\ d_last.profile # d_machines[d_last.bound].profile
             THEN d_last.raised = "ProfileMismatchException"
             ELSE d_last.raised = None /\ d_last.returned = d_last.bound
        ELSE /\ d_last.raised = None
             /\ d_last.returned = Len(d_machines)
             /\ d_port[d_last.port] = d_last.returned

(***************************************************************************)
(* Properties of the triggers of Async                                     *)
(***************************************************************************)
\* the Async after the event has fired once with the payload and the
\* payload is latched in the field of the event, if it has one
Latched(a, event, payload) ==
    [a EXCEPT !.fired[event] = Append(@, payload),
              !.heartbeat = IF event = "HEARTBEAT" THEN payload ELSE @,
              !.reply = IF event = "REPLY" THEN payload ELSE @,
              !.error = IF event = "ERROR" THEN payload ELSE @,
              !.state = async'.state]

\* C30: heartbeat_trigger, reply_trigger, error_trigger and timeout_trigger
\* never raise; called in PENDING or in a terminal state they fire no
\* listener and leave state, heartbeat, reply and error as they are; called
\* in RUNNING they fire their event once with the payload given and latch
\* it, and nothing else is fired or latched.
C30_TriggersNeverRaise ==
    [][(a_last'.via = "trigger" /\ a_last'.event # "CANCEL") =>
        /\ ~a_last'.raised
        /\ IF async.state = "RUNNING"
           THEN \E payload \in Payloads :
                    async' = Latched(async, a_last'.event, payload)
           ELSE async' = async]_vars

\* C30 witness: error_trigger was called on an Async that had succeeded
\* with a reply latched, and nothing of it changed
C30_Witness ==
    /\ a_last = [event |-> "ERROR", via |-> "trigger", raised |-> FALSE]
    /\ async.state = "SUCCESS"
    /\ async.reply = 2
    /\ async.error = None
    /\ async.fired["ERROR"] = <<>>
    /\ async.fired["REPLY"] = <<2>>

(***************************************************************************)
(* Properties of Async.cancel                                              *)
(***************************************************************************)
\* C31: Async.cancel() never raises in any state, a second cancel() leaves
\* the Async as the first one left it, and over any sequence of calls
\* cancel_event has fired at most once.
C31_CancelIdempotent ==
    [][/\ Len(async'.fired["CANCEL"]) <= 1
       /\ (a_last'.via = "trigger" /\ a_last'.event = "CANCEL") =>
            /\ ~a_last'.raised
            /\ async'.state \in AsyncTerminal
            /\ TriggerTransition(async', "CANCEL", 0) =
                    [a |-> async', raised |-> FALSE]]_vars

\* C31 witness: cancel() was called on a RUNNING Async that had a heartbeat,
\* and cancel_event fired once with the empty payload
C31_Witness ==
    /\ a_last = [event |-> "CANCEL", via |-> "trigger", raised |-> FALSE]
    /\ async.state = "CANCELED"
    /\ async.fired["HEARTBEAT"] # <<>>
    /\ async.fired["CANCEL"] = <<0>>

\* the positions of the output stream at which a request begins
RequestsOut ==
    {i \in 1..Len(t_outfp.buf) :
        t_outfp.buf[i].call = "request" /\ t_outfp.buf[i].part = "head"}

\* C32: for any interleaving of concurrent request() calls on one endpoint,
\* the ids of the requests are strictly increasing in the order in which the
\* requests appear on the output stream.
C32_IdsInOutputOrder ==
    \A i, j \in RequestsOut :
        i < j => t_outfp.buf[i].id.n < t_outfp.buf[j].id.n

\* the callback has just handled a response whose id is not in the pending
\* map: a number that was never issued or whose task has stopped, a string,
\* null, or no id at all
AnswersUnknown ==
    /\ rpc_op'.name = "callback"
    /\ ResponseShaped(rpc_op'.indata)
    /\ ~(rpc_op'.indata.id.k = "num"
         /\ rpc_op'.indata.id.n \in DOMAIN rpc.tasks)

\* C33: a response whose id is not in the pending map is dropped: nothing is
\* written to the output, no task changes state and the pending map is
\* unchanged.
C33_UnknownIdDropped ==
    [][AnswersUnknown =>
        /\ rpc_outfp' = <<>>
        /\ rpc'.stopped = rpc.stopped
        /\ rpc'.tasks = rpc.tasks
        /\ rpc' = rpc
        /\ rpc_log'.invoked = <<>>]_vars

\* C33 witness: a success response for request 0 has been handled after the
\* caller canceled the task of that request; the task is still CANCELED
C33_Witness ==
    /\ Handled
    /\ ResponseShaped(In)
    /\ In.id = Num(0)
    /\ In.result # Absent
    /\ rpc.idcounter = 1
    /\ DOMAIN rpc.tasks = {}
    /\ rpc.stopped[0] = [state |-> "CANCELED", value |-> Null]
    /\ rpc_outfp = <<>>

(***************************************************************************)
(* Properties of the framer on invalid input                               *)
(***************************************************************************)
\* the byte is invalid for the reader r: outside any value it is neither an
\* opener nor whitespace, or inside a structure it is a closing bracket
\* that finds the stack empty or does not match the innermost opener
Invalid(r, ch) ==
    \/ r.state = 0 /\ ch \notin Openers \cup Whitespace
    \/ /\ r.state = 1
       /\ ch \in Closers
       /\ \/ Len(r.stack) = 0
          \/ CloserOf(r.stack[Len(r.stack)]) # ch

\* the log after the buffered bytes ending with ch were emitted
EmittedWith(out, buffer, ch) ==
    Append(out, [data |-> Append(buffer, ch), kind |-> "emit",
                 by |-> "_transition"])

\* the reader as the test of the empty stack sets it up: state 1 forced on
\* a reader outside any value
ForcedInside == [r |-> [jr EXCEPT !.state = 1, !.stack = <<>>], out |-> jr_out]

\* C34: outside any value a byte that is neither '{', '[' nor whitespace
\* makes the framer emit the buffered bytes ending with that byte at once;
\* inside a structure a closing bracket that does not match the innermost
\* opener, or that arrives with an empty stack, is emitted at once too; in
\* both cases the framer restarts in state 0 with empty stack and buffer.
C34_InvalidEmitsAtOnce ==
    [][/\ \A ch \in Alphabet :
            (jr_fed' = Append(jr_fed, ch) /\ Invalid(jr, ch)) =>
                /\ jr' = JrReset
                /\ jr_out' = EmittedWith(jr_out, jr.buffer, ch)
       /\ \A ch \in Closers :
            /\ Invalid(ForcedInside.r, ch)
            /\ JrFeedChar(ForcedInside, ch) =
                [r |-> JrReset, out |-> EmittedWith(jr_out, jr.buffer, ch)]]_vars

\* C34 witness: '[{' was fed and then ']', which does not match the
\* innermost opener: the three bytes were emitted and the reader is reset
C34_Witness ==
    /\ jr_fed = <<"[", "{", "]">>
    /\ jr_out = <<[data |-> <<"[", "{", "]">>, kind |-> "emit",
                   by |-> "_transition"]>>
    /\ jr = JrReset

(***************************************************************************)
(* Properties of polling                                                   *)
(***************************************************************************)
\* the state of the machine after a poll that took the sample
PolledState(sample) == Poll(MNow, sample).m.state

\* C35: a poll that samples the device successfully changes the state only
\* from BUSY to IDLE when the device is not busy and is_finished holds, and
\* to BUSY when the device is busy; it never changes the state of a machine
\* that is in OPERATION or DISCONNECTED.
C35_PollStateChanges ==
    (~Locked /\ mach.s3g # None) =>
        \A sample \in Telemetry :
            /\ PolledState(sample) # mach.state =>
                \/ /\ mach.state = "BUSY"
                   /\ PolledState(sample) = "IDLE"
                   /\ ~sample.busy /\ sample.finished
                \/ /\ PolledState(sample) = "BUSY"
                   /\ sample.busy
            /\ mach.state \in {"OPERATION", "DISCONNECTED"} =>
                PolledState(sample) = mach.state

\* the machine after a poll whose device calls raised the error
PolledWith(error) == Poll(MNow, [k |-> "error", e |-> error])

\* the machine holds a task that has not stopped
HoldsLiveTask == mach.task # Null /\ m_task[mach.task.n] \notin TaskStopped

AtDeviceCall ==
    \/ m_work.pc = "begin"
    \/ /\ m_work.pc = "lines"
       /\ m_work.seg <= Len(Segments)
       /\ m_work.line < MaxLines
       /\ (m_work.line = 0 => Enters(MNow, m_work.seg))
       /\ m_task[m_work.op.task.n] = "RUNNING"
       /\ ~m_work.op.pause

\* C37: no thread holds the machine's state lock while a device driver call
\* is in progress: the work thread has released the lock whenever it calls
\* the device during an operation, so that pause(), cancel(), print() and
\* the poll thread are not kept waiting by a device call.
C37_LockFreeAtDeviceCall ==
    AtDeviceCall => ~Locked

\* the lines of a segment, in order
LinesOf(segment) == [i \in 1..MaxLines |-> <<segment, i>>]

\* the lines an operation has to pass to the parser, in order
Expected(op) ==
    IF op.skip_start_end
    THEN LinesOf("file")
    ELSE LinesOf("start") \o LinesOf("file") \o LinesOf("end")

IsPrefix(s, t) == Len(s) <= Len(t) /\ s = SubSeq(t, 1, Len(s))

\* the work thread runs an operation whose task is RUNNING
RunsLive == m_work.op # Null /\ m_task[m_work.op.task.n] = "RUNNING"

\* the line the work thread is about to pass to the parser, for the first
\* time or again
LineAtHand == <<Segments[m_work.seg], m_work.line + 1>>

\* the lines accepted so far are the first of the expected ones, each once;
\* a line at hand is the one that follows them; run() is past its last
\* segment only when all were accepted
InOrder ==
    RunsLive =>
        /\ IsPrefix(m_work.done, Expected(m_work.op))
        /\ (AtDeviceCall /\ m_work.pc = "lines") \/ m_work.pc = "retry" =>
            /\ Len(m_work.done) < Len(Expected(m_work.op))
            /\ LineAtHand = Expected(m_work.op)[Len(m_work.done) + 1]
        /\ (m_work.pc = "finish" /\ m_work.how = "done") =>
            m_work.done = Expected(m_work.op)

Paused == [MNow EXCEPT !.w.op.pause = TRUE]

\* C39: while the paused flag of an operation is set the work thread passes
\* no line to the parser: at the next line it waits on the condition
\* instead, with the lock released and the same line at hand, and it
\* executes that line only after unpause() has cleared the flag.
C39_PausedPassesNoLine ==
    /\ (m_work.op # Null /\ m_work.op.pause) =>
            m_work.pc \notin {"retry", "finish"}
    /\ m_work.pc \in {"lines", "retry", "paused"} =>
        \A outcome \in WorkOutcomes :
            /\ ExecuteLine(Paused, outcome).w =
                    [Paused.w EXCEPT !.pc = "paused", !.lock = FALSE]
            /\ ExecuteLine(Paused, outcome).dev = m_dev
            /\ ExecuteLine(Paused, outcome).tasks = m_task

\* the task of the operation the work thread runs has left RUNNING
TaskLeftRunning ==
    m_work.op # Null /\ m_task[m_work.op.task.n] # "RUNNING"

\* C40: lines are executed only while the task is RUNNING: once the task of
\* the operation has left RUNNING (canceled, failed or ended) the parser
\* accepts no further line from the work thread, neither from the input
\* file nor from the end scaffold nor as a retry of the current line.
C40_LinesOnlyWhileRunning ==
    [][TaskLeftRunning => m_work'.done = m_work.done \/ m_work'.op = Null]_vars

====
